---------------------------- MODULE Spec2Model ----------------------------
(***************************************************************************)
(* DevInsight: execution-context tracker (RuntimeHookEngine), error        *)
(* assembler (ErrorInterceptor), rule-based classifier (ReasoningEngine)   *)
(* and history / similarity layer (LocalAI).                               *)
(*                                                                         *)
(* Strings that the code inspects are sequences of symbols.  A symbol is   *)
(* a run of characters without whitespace, or the blank " ".  The          *)
(* vocabulary is chosen so that no symbol is a concatenation of others and *)
(* no searched phrase can begin or end inside a symbol: on it, substring   *)
(* search on characters and on symbols coincide.                           *)
(*                                                                         *)
(* Probabilities and confidences are integers: sampling rates and random   *)
(* draws in hundredths, confidences of causes and fixes in hundredths,     *)
(* overall confidences in units of 1/(100 * ConfDen) so that means of up   *)
(* to ten cause confidences are exact.                                     *)
(***************************************************************************)
EXTENDS Integers, Sequences, FiniteSets, TLC

VARIABLES
    requested,       \* the config object passed to DevInsight.enable
    instance,        \* DevInsight.instance: NoInstance or [config, isEnabled]
    contextCounter,  \* RuntimeHookEngine.contextCounter
    activeContexts,  \* RuntimeHookEngine.activeContexts (set of context ids)
    contexts,        \* heap of ExecutionContext objects, by id
    stack,           \* per flow: the frames of the run() calls in progress
    bcCounter,       \* number of breadcrumb ids generated
    lastBundle,      \* the ErrorContext most recently built by the interceptor
    lastCtx,         \* the ErrorContext passed to the last analyze / enhance
    errorHistory,    \* LocalAI.errorHistory
    priorHistory,    \* errorHistory at entry of the last enhance call
    lastBase,        \* baseAnalysis passed to the last enhance call
    lastAnalysis,    \* ErrorAnalysis returned by the last enhance call
    simArgs,         \* arguments of calculateSimilarity
    simResult,       \* its result
    caller,          \* the flow that made the last call of addBreadcrumb or trackError
    plugins,         \* PluginSystem.plugins: plugin name -> plugin
    hookCalls,       \* the plugin hooks invoked so far
    now,             \* Date.now()
    cloneArg,        \* the value given to cloneValue alone
    cloneResult,     \* what that call returned
    watchedVariables,\* StateSnapshotManager.watchedVariables: name -> stored copy
    lastCall,        \* outcome of the last call on the StateSnapshotManager
    lastRun,         \* the last whole call of run(): its callback and what it did
    instances,       \* every DevInsight object constructed so far, by number
    listeners,       \* the listeners registered on `process', per event, in order
    exited,          \* process.exit was called
    lastApi,         \* the last call of enable, disable, the middleware, or a signal
    pending          \* continuations scheduled and not yet run, with the store they carry

vars == <<requested, instance, contextCounter, activeContexts, contexts, stack,
          bcCounter, lastBundle, lastCtx, errorHistory, priorHistory, lastBase,
          lastAnalysis, simArgs, simResult, caller, plugins, hookCalls, now,
          cloneArg, cloneResult, watchedVariables, lastCall, lastRun,
          instances, listeners, exited, lastApi, pending>>

trackerVars == <<requested, instance, contextCounter, activeContexts, contexts,
                 stack, bcCounter, lastBundle, caller>>
aiVars == <<lastCtx, errorHistory, priorHistory, lastBase, lastAnalysis>>
simVars == <<simArgs, simResult>>
pluginVars == <<plugins, hookCalls>>
snapVars == <<cloneArg, cloneResult, watchedVariables, lastCall>>
lifeVars == <<lastRun, instances, listeners, exited, lastApi, pending>>

-----------------------------------------------------------------------------
(* Bounds *)

MaxSimLen == 3      \* longest message given to calculateSimilarity alone
MaxErrors == 2      \* failures analysed in one behaviour
NumFlows == 2       \* concurrent logical flows
MaxNesting == 2     \* run() calls in progress per flow
MaxContexts == 2    \* contexts created in one behaviour
MaxCrumbs == 2      \* breadcrumbs recorded in one behaviour
MaxTime == 102      \* clock ticks, one failure analysed at each
MaxSeries == 4      \* failures enhanced in a row in a series of similar ones
MaxChain == 6       \* containers in a value given to cloneValue
MaxInstances == 2   \* DevInsight objects constructed in one behaviour
MaxSignals == 2     \* process events handled by the handlers of one instance

\* an optional value is <<>> (null, undefined, not yet there) or <<v>>
Undefined == "undefined"   \* an absent string

-----------------------------------------------------------------------------
(* Strings *)

Blank == " "

IsSpace(c) == c = Blank

\* String.prototype.toLowerCase, symbol by symbol
Lower(c) ==
    CASE c = "A" -> "a"
      [] c = "B" -> "b"
      [] c = "Cannot" -> "cannot"
      [] c = "Promise" -> "promise"
      [] c = "MODULE_NOT_FOUND" -> "module_not_found"
      [] c = "Error:" -> "error:"
      [] OTHER -> c

ToLowerCase(s) == [i \in 1..Len(s) |-> Lower(s[i])]

\* String.prototype.includes
StrIncludes(s, sub) ==
    \E i \in 0..(Len(s) - Len(sub)) :
        \A j \in 1..Len(sub) : s[i + j] = sub[j]

\* first index >= i that holds no whitespace (Len(s) + 1 if there is none)
RECURSIVE SkipSpaces(_, _)
SkipSpaces(s, i) ==
    IF i > Len(s) \/ ~IsSpace(s[i]) THEN i ELSE SkipSpaces(s, i + 1)

\* String.prototype.split(/\s+/): the fields between maximal whitespace runs;
\* a leading or trailing run yields an empty field, "" yields [""]
RECURSIVE SplitFrom(_, _, _)
SplitFrom(s, i, cur) ==
    IF i > Len(s) THEN <<cur>>
    ELSE IF IsSpace(s[i]) THEN <<cur>> \o SplitFrom(s, SkipSpaces(s, i), <<>>)
    ELSE SplitFrom(s, i + 1, Append(cur, s[i]))

SplitWs(s) == SplitFrom(s, 1, <<>>)

\* Array.prototype.includes
ArrIncludes(arr, x) == \E i \in 1..Len(arr) : arr[i] = x

Max(a, b) == IF a >= b THEN a ELSE b
Min(a, b) == IF a <= b THEN a ELSE b

Range(s) == {s[i] : i \in 1..Len(s)}

\* all sequences over S of length at most n
SeqsUpTo(S, n) == UNION {[1..k -> S] : k \in 0..n}

-----------------------------------------------------------------------------
(* LocalAI.calculateSimilarity *)

\* a quotient num/den that is never rounded
Ratio(n, d) == [num |-> n, den |-> d]
RatioEq(p, q) == p.num * q.den = q.num * p.den
RatioGt(p, q) == p.num * q.den > q.num * p.den

calculateSimilarityDistinctCommon(str1, str2) ==
    LET words1 == SplitWs(ToLowerCase(str1))
        words2 == SplitWs(ToLowerCase(str2))
        commonWords == {word \in Range(words1) : ArrIncludes(words2, word)}
        totalWords == Max(Len(words1), Len(words2))
    IN  IF totalWords > 0 THEN Ratio(Cardinality(commonWords), totalWords) ELSE Ratio(0, 1)

calculateSimilarity(str1, str2) ==
    LET words1 == SplitWs(ToLowerCase(str1))
        words2 == SplitWs(ToLowerCase(str2))
        commonWords == SelectSeq(words1, LAMBDA word : ArrIncludes(words2, word))
        totalWords == Max(Len(words1), Len(words2))
    IN  IF totalWords > 0 THEN Ratio(Len(commonWords), totalWords) ELSE Ratio(0, 1)

SimAlphabet == {"a", "A", "b", Blank}
SimMessages == SeqsUpTo(SimAlphabet, MaxSimLen)


-----------------------------------------------------------------------------
(* ReasoningEngine *)

Msg(words) ==
    \* the string made of the given symbols separated by single blanks
    [i \in 1..(2 * Len(words) - 1) |->
        IF i % 2 = 1 THEN words[(i + 1) \div 2] ELSE Blank]

PCannotReadProperty == Msg(<<"Cannot", "read">>) \o <<Blank, "propert", "y">>
PCannotReadPropertiesOfUndefined ==
    Msg(<<"Cannot", "read">>) \o <<Blank, "propert", "ies", Blank>>
        \o Msg(<<"of", "undefined">>)
PCannotReadPropertiesOfNull ==
    Msg(<<"Cannot", "read">>) \o <<Blank, "propert", "ies", Blank>>
        \o Msg(<<"of", "null">>)
PPromise == <<"Promise">>
PAsync == <<"async">>
PIsNotAFunction == Msg(<<"is", "not", "a", "function">>)
PIsNotAConstructor == Msg(<<"is", "not", "a", "constructor">>)
PCannotFindModule == Msg(<<"Cannot", "find", "module">>)
PModuleNotFound == <<"MODULE_NOT_FOUND">>
PCannotResolveModule == Msg(<<"Error:", "Cannot", "resolve", "module">>)
\* the lower-case phrases of LocalAI
PLcCannotFindModule == Msg(<<"cannot", "find", "module">>)
PLcCannotReadPropert == Msg(<<"cannot", "read">>) \o <<Blank, "propert">>

\* `error instanceof TypeError': the errors handled are instances of the
\* built-in class their name says
InstanceOfTypeError(error) == error.name = "TypeError"

Cause(d, c) == [description |-> d, confidence |-> c]
Fix(d, c, t) == [description |-> d, confidence |-> c, type |-> t]

errorPatterns ==
    << [name |-> "null-undefined-access", priority |-> 10,
        causes |-> << Cause("Attempting to access property on null or undefined object", 95),
                      Cause("Object was not initialized before use", 80) >>,
        fixes |-> << Fix("Add null/undefined check before accessing property", 90, "add-check"),
                     Fix("Use optional chaining", 95, "refactor") >>],
       [name |-> "missing-await", priority |-> 9,
        causes |-> << Cause("Missing await on Promise", 85),
                      Cause("Async function returned without await", 75) >>,
        fixes |-> << Fix("Add await keyword to Promise", 90, "add-await"),
                     Fix("Add .then() handler", 70, "refactor") >>],
       [name |-> "type-mismatch", priority |-> 8,
        causes |-> << Cause("Variable has unexpected type", 90),
                      Cause("Function called on non-function value", 85) >>,
        fixes |-> << Fix("Check type before calling", 85, "add-check"),
                     Fix("Verify import/export statements", 70, "other") >>],
       [name |-> "unhandled-rejection", priority |-> 7,
        causes |-> << Cause("Promise rejection was not caught", 100) >>,
        fixes |-> << Fix("Add .catch() handler to Promise", 90, "add-check"),
                     Fix("Wrap in try-catch with await", 85, "add-check") >>],
       [name |-> "missing-module", priority |-> 10,
        causes |-> << Cause("Required module is not installed", 95),
                      Cause("Module path is incorrect or misspelled", 85),
                      Cause("Missing dependency in package.json", 90) >>,
        fixes |-> << Fix("Install the missing module", 95, "install"),
                     Fix("Check module name spelling in require/import statement", 85, "check"),
                     Fix("Verify the module exists in package.json dependencies", 80, "check"),
                     Fix("Run npm install to install all dependencies", 90, "install") >>] >>

NullUndefinedAccessMatcherPropertyOnly(ctx) ==
    StrIncludes(ctx.error.message, PCannotReadProperty)

NullUndefinedAccessMatcher(ctx) ==
    \/ StrIncludes(ctx.error.message, PCannotReadProperty)
    \/ StrIncludes(ctx.error.message, PCannotReadPropertiesOfUndefined)
    \/ StrIncludes(ctx.error.message, PCannotReadPropertiesOfNull)

MissingAwaitMatcher(ctx) ==
    LET hasPromiseInStack ==
            \E i \in 1..Len(ctx.breadcrumbs) : ctx.breadcrumbs[i].type = "promise"
        hasAsyncError ==
            \/ StrIncludes(ctx.error.message, PPromise)
            \/ StrIncludes(ctx.error.message, PAsync)
    IN  hasPromiseInStack /\ hasAsyncError

TypeMismatchMatcher(ctx) ==
    /\ InstanceOfTypeError(ctx.error)
    /\ \/ StrIncludes(ctx.error.message, PIsNotAFunction)
       \/ StrIncludes(ctx.error.message, PIsNotAConstructor)

UnhandledRejectionMatcherNeedsPromise(ctx) ==
    /\ ctx.type = "unhandledRejection"
    /\ \E i \in 1..Len(ctx.breadcrumbs) : ctx.breadcrumbs[i].type = "promise"

UnhandledRejectionMatcher(ctx) ==
    ctx.type = "unhandledRejection"

MissingModuleMatcher(ctx) ==
    \/ StrIncludes(ctx.error.message, PCannotFindModule)
    \/ StrIncludes(ctx.error.message, PModuleNotFound)
    \/ StrIncludes(ctx.error.message, PCannotResolveModule)

matcher(pattern, ctx) ==
    CASE pattern.name = "null-undefined-access" -> NullUndefinedAccessMatcher(ctx)
      [] pattern.name = "missing-await" -> MissingAwaitMatcher(ctx)
      [] pattern.name = "type-mismatch" -> TypeMismatchMatcher(ctx)
      [] pattern.name = "unhandled-rejection" -> UnhandledRejectionMatcher(ctx)
      [] pattern.name = "missing-module" -> MissingModuleMatcher(ctx)

\* Array.prototype.sort with (a, b) => b.priority - a.priority: stable,
\* so each element goes behind the elements that do not rank below it
InsertByPriorityTiesReversed(sorted, x) ==
    LET k == Cardinality({i \in 1..Len(sorted) : sorted[i].priority > x.priority})
    IN  SubSeq(sorted, 1, k) \o <<x>> \o SubSeq(sorted, k + 1, Len(sorted))
InsertByPriority(sorted, x) ==
    LET k == Cardinality({i \in 1..Len(sorted) : sorted[i].priority >= x.priority})
    IN  SubSeq(sorted, 1, k) \o <<x>> \o SubSeq(sorted, k + 1, Len(sorted))

RECURSIVE SortByPriority(_)
SortByPriority(s) ==
    IF s = <<>> THEN <<>>
    ELSE InsertByPriority(SortByPriority(SubSeq(s, 1, Len(s) - 1)), s[Len(s)])

InsertByConfidence(sorted, x) ==
    LET k == Cardinality({i \in 1..Len(sorted) : sorted[i].confidence >= x.confidence})
    IN  SubSeq(sorted, 1, k) \o <<x>> \o SubSeq(sorted, k + 1, Len(sorted))

RECURSIVE SortByConfidence(_)
SortByConfidence(s) ==
    IF s = <<>> THEN <<>>
    ELSE InsertByConfidence(SortByConfidence(SubSeq(s, 1, Len(s) - 1)), s[Len(s)])

matchPatterns(ctx) ==
    SortByPriority(SelectSeq(errorPatterns, LAMBDA pattern : matcher(pattern, ctx)))

RECURSIVE FlattenCauses(_)
FlattenCauses(patterns) ==
    IF patterns = <<>> THEN <<>>
    ELSE Head(patterns).causes \o FlattenCauses(Tail(patterns))

RECURSIVE FlattenFixes(_)
FlattenFixes(patterns) ==
    IF patterns = <<>> THEN <<>>
    ELSE Head(patterns).fixes \o FlattenFixes(Tail(patterns))

UnknownCause == Cause("Unknown error cause", 30)

identifyCausesNoFallback(patterns) == FlattenCauses(patterns)
identifyCauses(patterns) ==
    LET causes == FlattenCauses(patterns)
    IN  IF Len(causes) = 0 THEN <<UnknownCause>> ELSE causes

MaxFixes == 5

generateFixesSliceFirst(patterns) ==
    LET fixes == FlattenFixes(patterns)
    IN  SortByConfidence(SubSeq(fixes, 1, Min(MaxFixes, Len(fixes))))
generateFixes(patterns) ==
    LET fixes == SortByConfidence(FlattenFixes(patterns))
    IN  SubSeq(fixes, 1, Min(MaxFixes, Len(fixes)))

\* units of overall confidence per hundredth: the least common multiple of
\* 1..10, the possible lengths of a cause list
ConfDen == 8 * 9 * 5 * 7
One == 100 * ConfDen

RECURSIVE SumConfidence(_)
SumConfidence(causes) ==
    IF causes = <<>> THEN 0
    ELSE Head(causes).confidence + SumConfidence(Tail(causes))

baseAnalysisOfFirstCause(ctx) ==
    LET matchedPatterns == matchPatterns(ctx)
        likelyCauses == identifyCauses(matchedPatterns)
        suggestedFixes == generateFixes(matchedPatterns)
        confidence ==
            IF Len(likelyCauses) > 0 THEN likelyCauses[1].confidence * ConfDen ELSE 0
    IN  [likelyCauses |-> likelyCauses,
         suggestedFixes |-> suggestedFixes,
         confidence |-> confidence,
         pattern |-> IF Len(matchedPatterns) > 0 THEN matchedPatterns[1].name
                     ELSE Undefined]

\* ReasoningEngine.analyze up to the call of LocalAI.enhance
baseAnalysisOf(ctx) ==
    LET matchedPatterns == matchPatterns(ctx)
        likelyCauses == identifyCauses(matchedPatterns)
        suggestedFixes == generateFixes(matchedPatterns)
        confidence ==
            IF Len(likelyCauses) > 0
            THEN (SumConfidence(likelyCauses) * ConfDen) \div Len(likelyCauses)
            ELSE 0
    IN  [likelyCauses |-> likelyCauses,
         suggestedFixes |-> suggestedFixes,
         confidence |-> confidence,
         pattern |-> IF Len(matchedPatterns) > 0 THEN matchedPatterns[1].name
                     ELSE Undefined]

-----------------------------------------------------------------------------
(* LocalAI *)

knowledgeBase ==
    << [pattern |-> PLcCannotFindModule, category |-> "dependency",
        commonCauses |-> <<"Package not installed", "Wrong module name",
                           "Missing from package.json">>,
        solutions |-> <<"Run npm install <package-name>",
                        "Check spelling of module name", "Verify package.json">>],
       [pattern |-> PLcCannotReadPropert, category |-> "null-access",
        commonCauses |-> <<"Variable is null or undefined", "Object not initialized",
                           "Async operation not complete">>,
        solutions |-> <<"Add null check: if (obj) { ... }",
                        "Use optional chaining: obj?.prop",
                        "Initialize variable before use">>],
       [pattern |-> PIsNotAFunction, category |-> "type-error",
        commonCauses |-> <<"Wrong import/export", "Variable has wrong type",
                           "Method doesnt exist">>,
        solutions |-> <<"Check import statement", "Verify object has the method",
                        "Check type before calling">>] >>

\* RegExp.prototype.test of a case-insensitive literal pattern
TestI(pattern, message) == StrIncludes(ToLowerCase(message), pattern)

\* Array.prototype.find: <<the first match>>, or <<>> for undefined
findKnowledgeMatch(ctx) ==
    LET hits == SelectSeq(knowledgeBase, LAMBDA kb : TestI(kb.pattern, ctx.error.message))
    IN  SubSeq(hits, 1, Min(1, Len(hits)))

\* the sentence chosen; the texts that embed the message carry it whole
explainError(error) ==
    LET message == ToLowerCase(error.message)
    IN  IF StrIncludes(message, PLcCannotFindModule)
            THEN <<"Node.js couldn't find the package", error.message>>
        ELSE IF StrIncludes(message, PIsNotAFunction)
            THEN <<"You're trying to call something as a function">>
        ELSE IF StrIncludes(message, PLcCannotReadPropert)
            THEN <<"You're trying to access a property on something that doesn't exist">>
        ELSE IF error.name = "SyntaxError"
            THEN <<"There's a syntax mistake in your code">>
        ELSE IF error.name = "ReferenceError"
            THEN <<"You're using a variable or function that hasn't been defined yet">>
        ELSE <<"An unexpected error occurred", error.message>>

\* the parts joined by generateExplanation, one tuple per part
generateExplanation(ctx, analysis, similarErrors, kbMatch) ==
    <<  <<"What Happened">>  >>
    \o (IF kbMatch # <<>>
        THEN << <<"This is a known issue category", kbMatch[1].category>>,
                <<"Possible causes">> \o kbMatch[1].commonCauses >>
        ELSE <<>>)
    \o << explainError(ctx.error) >>
    \o (IF Len(analysis.likelyCauses) > 0
        THEN << <<"Most Likely Cause">>, <<analysis.likelyCauses[1].description>> >>
        ELSE <<>>)
    \o (IF Len(analysis.suggestedFixes) > 0
        THEN << <<"How to Fix It">> >>
             \o [i \in 1..Min(2, Len(analysis.suggestedFixes)) |->
                    <<analysis.suggestedFixes[i].description>>]
        ELSE <<>>)
    \o (IF Len(similarErrors) > 0
        THEN << <<"AI Note: similar error(s) seen before", Len(similarErrors)>> >>
        ELSE <<>>)

getPreventionTips(ctx) ==
    LET message == ToLowerCase(ctx.error.message)
    IN  (IF StrIncludes(message, PLcCannotFindModule)
         THEN <<"Always run `npm install` after cloning a project",
                "Add dependencies to package.json before using them",
                "Check for typos in your require/import statements">>
         ELSE <<>>)
        \o (IF StrIncludes(message, PLcCannotReadPropert)
            THEN <<"Use optional chaining (?.) for safer property access",
                   "Add null/undefined checks before accessing properties",
                   "Initialize objects before using them">>
            ELSE <<>>)
        \o (IF StrIncludes(message, PIsNotAFunction)
            THEN <<"Check your import/export statements",
                   "Verify the variable type before calling it",
                   "Make sure you're calling methods on the right object">>
            ELSE <<>>)
        \o (IF ctx.type = "unhandledRejection"
            THEN <<"Always add .catch() to Promises",
                   "Use try-catch blocks with async/await",
                   "Handle errors in async functions">>
            ELSE <<>>)

\* [...new Set(arr)]: the first occurrence of each element, in order
Dedup(arr) ==
    SelectSeq([i \in 1..Len(arr) |-> [v |-> arr[i], first |-> \A j \in 1..(i - 1) : arr[j] # arr[i]]],
              LAMBDA e : e.first)

DedupValues(arr) == [i \in 1..Len(Dedup(arr)) |-> Dedup(arr)[i].v]

SimilarityThreshold == Ratio(7, 10)

findSimilarErrorsAtLeast(history, ctx) ==
    SelectSeq(history, LAMBDA item :
        /\ item.errorName = ctx.error.name
        /\ \/ RatioGt(calculateSimilarity(item.errorMessage, ctx.error.message),
                      SimilarityThreshold)
           \/ RatioEq(calculateSimilarity(item.errorMessage, ctx.error.message),
                      SimilarityThreshold))

findSimilarErrors(history, ctx) ==
    SelectSeq(history, LAMBDA item :
        /\ item.errorName = ctx.error.name
        /\ RatioGt(calculateSimilarity(item.errorMessage, ctx.error.message),
                   SimilarityThreshold))

HistoryCapacity == 100

\* the entry learnFromError stores; its timestamp is the bundle's
ErrorHistoryItem(ctx) ==
    [errorName |-> ctx.error.name,
     errorMessage |-> ctx.error.message,
     timestamp |-> ctx.timestamp,
     type |-> ctx.type]

learnFromErrorDropsNewest(history, ctx) ==
    LET pushed == Append(history, ErrorHistoryItem(ctx))
    IN  IF Len(pushed) > HistoryCapacity THEN SubSeq(pushed, 1, HistoryCapacity)
        ELSE pushed
learnFromError(history, ctx) ==
    LET pushed == Append(history, ErrorHistoryItem(ctx))
    IN  IF Len(pushed) > HistoryCapacity THEN Tail(pushed) ELSE pushed

calculateEnhancedConfidenceCapped90(baseConfidence, similarErrorsCount, hasKbMatch) ==
    Min(baseConfidence + Min(similarErrorsCount * 5 * ConfDen, 15 * ConfDen)
            + (IF hasKbMatch THEN 10 * ConfDen ELSE 0),
        90 * ConfDen)

calculateEnhancedConfidenceUncappedBoost(baseConfidence, similarErrorsCount, hasKbMatch) ==
    Min(baseConfidence + similarErrorsCount * 5 * ConfDen
            + (IF hasKbMatch THEN 10 * ConfDen ELSE 0),
        One)

calculateEnhancedConfidence(baseConfidence, similarErrorsCount, hasKbMatch) ==
    Min(baseConfidence + Min(similarErrorsCount * 5 * ConfDen, 15 * ConfDen)
            + (IF hasKbMatch THEN 10 * ConfDen ELSE 0),
        One)

enhanceResultKbPattern(history, ctx, baseAnalysis) ==
    LET similarErrors == findSimilarErrors(history, ctx)
        kbMatch == findKnowledgeMatch(ctx)
        aiExplanation == generateExplanation(ctx, baseAnalysis, similarErrors, kbMatch)
        tips == getPreventionTips(ctx)
        preventionTips ==
            IF kbMatch # <<>> THEN DedupValues(tips \o kbMatch[1].solutions) ELSE tips
    IN  [likelyCauses |-> baseAnalysis.likelyCauses,
         suggestedFixes |-> baseAnalysis.suggestedFixes,
         pattern |-> IF kbMatch # <<>> THEN kbMatch[1].category ELSE baseAnalysis.pattern,
         confidence |-> calculateEnhancedConfidence(baseAnalysis.confidence,
                            Len(similarErrors), kbMatch # <<>>),
         aiExplanation |-> aiExplanation,
         preventionTips |-> preventionTips,
         similarErrorsCount |-> Len(similarErrors)]

\* the ErrorAnalysis returned by LocalAI.enhance; history is errorHistory
\* after learnFromError
enhanceResult(history, ctx, baseAnalysis) ==
    LET similarErrors == findSimilarErrors(history, ctx)
        kbMatch == findKnowledgeMatch(ctx)
        aiExplanation == generateExplanation(ctx, baseAnalysis, similarErrors, kbMatch)
        tips == getPreventionTips(ctx)
        preventionTips ==
            IF kbMatch # <<>> THEN DedupValues(tips \o kbMatch[1].solutions) ELSE tips
    IN  [likelyCauses |-> baseAnalysis.likelyCauses,
         suggestedFixes |-> baseAnalysis.suggestedFixes,
         pattern |-> baseAnalysis.pattern,
         confidence |-> calculateEnhancedConfidence(baseAnalysis.confidence,
                            Len(similarErrors), kbMatch # <<>>),
         aiExplanation |-> aiExplanation,
         preventionTips |-> preventionTips,
         similarErrorsCount |-> Len(similarErrors)]

\* LocalAI.enhance as a state change
enhanceReusesEarlierAnalysis(ctx, baseAnalysis) ==
    /\ lastCtx' = <<ctx>>
    /\ priorHistory' = errorHistory
    /\ errorHistory' = learnFromError(errorHistory, ctx)
    /\ lastBase' = <<baseAnalysis>>
    /\ lastAnalysis' =
           IF lastAnalysis # <<>> /\ findSimilarErrors(errorHistory, ctx) # <<>>
           THEN <<[enhanceResult(errorHistory', ctx, baseAnalysis) EXCEPT
                      !.likelyCauses = lastAnalysis[1].likelyCauses,
                      !.suggestedFixes = lastAnalysis[1].suggestedFixes,
                      !.pattern = lastAnalysis[1].pattern]>>
           ELSE <<enhanceResult(errorHistory', ctx, baseAnalysis)>>
enhance(ctx, baseAnalysis) ==
    /\ lastCtx' = <<ctx>>
    /\ priorHistory' = errorHistory
    /\ errorHistory' = learnFromError(errorHistory, ctx)
    /\ lastBase' = <<baseAnalysis>>
    /\ lastAnalysis' = <<enhanceResult(errorHistory', ctx, baseAnalysis)>>

\* ReasoningEngine.analyze as a state change
analyze(ctx) == enhance(ctx, baseAnalysisOf(ctx))

-----------------------------------------------------------------------------
(* StateSnapshotManager.cloneValue *)

\* A JavaScript value as cloneValue sees it: a primitive (string, number,
\* boolean, null, undefined), a function, or a container (object or array)
\* with an identity and its own enumerable properties in enumeration order.
\* A container that can be reached again from itself is written unfolded.
Prim(v) == [kind |-> "prim", prim |-> v, id |-> <<>>, fields |-> <<>>]
Function(name) == [kind |-> "function", prim |-> name, id |-> <<>>, fields |-> <<>>]
Container(kind, id, fields) == [kind |-> kind, prim |-> "", id |-> id, fields |-> fields]
Property(key, value) == [key |-> key, value |-> value]

MaxDepthReached == Prim("<max depth reached>")
CircularReference == Prim("<circular reference>")
FunctionPlaceholder == Prim("<function>")

CloneMaxDepth == 5

\* what a call returns: a value, or an exception thrown out of it; `visited'
\* is the WeakSet after the call and `calls' the calls of cloneValue made
Returned(value, visited, calls) ==
    [thrown |-> FALSE, value |-> value, visited |-> visited, calls |-> calls]
Thrown(visited, calls) ==
    [thrown |-> TRUE, value |-> Prim("<thrown>"), visited |-> visited, calls |-> calls]

\* the own property `hasOwnProperty' of an object, which shadows
\* Object.prototype.hasOwnProperty: <<>> when there is none
OwnHasOwnProperty(value) ==
    SelectSeq(value.fields, LAMBDA field : field.key = "hasOwnProperty")

\* `value.hasOwnProperty(key)' raises a TypeError when the own property is
\* not callable
HasOwnPropertyThrows(value) ==
    /\ OwnHasOwnProperty(value) # <<>>
    /\ OwnHasOwnProperty(value)[1].value.kind # "function"

\* its result for an own enumerable key: true from Object.prototype, and
\* whatever the shadowing function returns
HasOwnPropertyResult(value) ==
    OwnHasOwnProperty(value) = <<>> \/ OwnHasOwnProperty(value)[1].value.prim = "returnsTrue"

\* `depth > maxDepth'
DepthExceededFromMaxDepth(depth) == depth >= CloneMaxDepth
DepthExceeded(depth) == depth > CloneMaxDepth

\* `visited.has(value)'
IsVisitedNever(value, visited) == FALSE
IsVisited(value, visited) == value.id \in visited

RECURSIVE cloneValue(_, _, _, _)
RECURSIVE cloneItems(_, _, _, _, _)

\* the loop of cloneValue over the elements of an array (value.map) or the
\* keys of an object (for ... in), from the i-th on; the copies go to a new
\* container whose identity is `path'
cloneItems(value, i, depth, visited, path) ==
    IF i > Len(value.fields) THEN Returned(Container(value.kind, path, <<>>), visited, 0)
    ELSE IF value.kind = "object" /\ HasOwnPropertyThrows(value) THEN Thrown(visited, 0)
    ELSE IF value.kind = "object" /\ ~HasOwnPropertyResult(value)
         THEN cloneItems(value, i + 1, depth, visited, path)
    ELSE LET item == cloneValue(value.fields[i].value, depth + 1, visited, Append(path, i))
         IN  IF item.thrown THEN Thrown(item.visited, item.calls)
             ELSE LET rest == cloneItems(value, i + 1, depth, item.visited, path)
                  IN  IF rest.thrown THEN Thrown(rest.visited, item.calls + rest.calls)
                      ELSE Returned(
                               Container(value.kind, path,
                                   <<Property(value.fields[i].key, item.value)>>
                                       \o rest.value.fields),
                               rest.visited, item.calls + rest.calls)

\* cloneValue(value, depth, visited); symbols, dates, regular expressions and
\* Error objects are not among the values modelled
cloneValue(value, depth, visited, path) ==
    IF DepthExceeded(depth) THEN Returned(MaxDepthReached, visited, 1)
    ELSE IF value.kind = "prim" THEN Returned(value, visited, 1)
    ELSE IF value.kind = "function" THEN Returned(FunctionPlaceholder, visited, 1)
    ELSE IF IsVisited(value, visited) THEN Returned(CircularReference, visited, 1)
    ELSE LET items == cloneItems(value, 1, depth, visited \cup {value.id}, path)
         IN  [items EXCEPT !.calls = @ + 1]

-----------------------------------------------------------------------------
(* DataMasker *)

MaskReplacement == Prim("***MASKED***")
MaskCircular == Prim("<circular>")

\* isSensitiveKey with the default patterns, on the keys used here
isSensitiveKey(key) == key \in {"token", "password"}

RECURSIVE maskValue(_, _)
RECURSIVE maskItems(_, _, _)

maskItems(value, i, visited) ==
    IF i > Len(value.fields) THEN Returned(Container(value.kind, value.id, <<>>), visited, 0)
    ELSE IF value.kind = "object" /\ HasOwnPropertyThrows(value) THEN Thrown(visited, 0)
    ELSE IF value.kind = "object" /\ ~HasOwnPropertyResult(value)
         THEN maskItems(value, i + 1, visited)
    ELSE LET item == IF value.kind = "object" /\ isSensitiveKey(value.fields[i].key)
                     THEN Returned(MaskReplacement, visited, 0)
                     ELSE maskValue(value.fields[i].value, visited)
         IN  IF item.thrown THEN Thrown(item.visited, 0)
             ELSE LET rest == maskItems(value, i + 1, item.visited)
                  IN  IF rest.thrown THEN Thrown(rest.visited, 0)
                      ELSE Returned(
                               Container(value.kind, value.id,
                                   <<Property(value.fields[i].key, item.value)>>
                                       \o rest.value.fields),
                               rest.visited, 0)

maskValue(value, visited) ==
    IF value.kind \in {"prim", "function"} THEN Returned(value, visited, 0)
    ELSE IF value.id \in visited THEN Returned(MaskCircular, visited, 0)
    ELSE maskItems(value, 1, visited \cup {value.id})

\* DataMasker.mask with masking enabled, the default
mask(value) == maskValue(value, {})

-----------------------------------------------------------------------------
(* StateSnapshotManager *)

ErrorCapturingValue == Prim("<error capturing value>")

\* the body of the try block of captureWatchedVariables for one stored value
CaptureAttempt(value) ==
    LET clonedValue == cloneValue(value, 0, {}, <<>>)
    IN  IF clonedValue.thrown THEN clonedValue ELSE mask(clonedValue.value)

\* captureWatchedVariables: each watched name with the masked copy of its
\* stored value, or with the error marker when the try block threw
captureWatchedVariablesNoCatch ==
    [raised |-> \E name \in DOMAIN watchedVariables :
                    CaptureAttempt(watchedVariables[name]).thrown,
     captured |-> [name \in DOMAIN watchedVariables |->
                      CaptureAttempt(watchedVariables[name]).value]]
captureWatchedVariables ==
    [raised |-> FALSE,
     captured |-> [name \in DOMAIN watchedVariables |->
                      IF CaptureAttempt(watchedVariables[name]).thrown
                      THEN ErrorCapturingValue
                      ELSE CaptureAttempt(watchedVariables[name]).value]]

\* the outcome of a call: which operation, whether it raised, and for
\* captureSnapshot the watchedVariables of the snapshot
Outcome(op, raised, captured) == [op |-> op, raised |-> raised, captured |-> captured]

\* StateSnapshotManager.watch: the copy is made before the map is written
Watch(variableName, value) ==
    /\ LET cloned == cloneValue(value, 0, {}, <<>>)
       IN  IF cloned.thrown
           THEN /\ lastCall' = <<Outcome("watch", TRUE, <<>>)>>
                /\ UNCHANGED watchedVariables
           ELSE /\ lastCall' = <<Outcome("watch", FALSE, <<>>)>>
                /\ watchedVariables' =
                       [name \in DOMAIN watchedVariables \cup {variableName} |->
                           IF name = variableName THEN cloned.value
                           ELSE watchedVariables[name]]
    /\ UNCHANGED <<cloneArg, cloneResult>>
    /\ UNCHANGED trackerVars
    /\ UNCHANGED aiVars
    /\ UNCHANGED simVars
    /\ UNCHANGED pluginVars
    /\ UNCHANGED now
    /\ UNCHANGED lifeVars

\* StateSnapshotManager.updateWatch: only warns when the name is not watched
UpdateWatch(variableName, newValue) ==
    /\ IF variableName \notin DOMAIN watchedVariables
       THEN /\ lastCall' = <<Outcome("updateWatch", FALSE, <<>>)>>
            /\ UNCHANGED watchedVariables
       ELSE LET cloned == cloneValue(newValue, 0, {}, <<>>)
            IN  IF cloned.thrown
                THEN /\ lastCall' = <<Outcome("updateWatch", TRUE, <<>>)>>
                     /\ UNCHANGED watchedVariables
                ELSE /\ lastCall' = <<Outcome("updateWatch", FALSE, <<>>)>>
                     /\ watchedVariables' =
                            [watchedVariables EXCEPT ![variableName] = cloned.value]
    /\ UNCHANGED <<cloneArg, cloneResult>>
    /\ UNCHANGED trackerVars
    /\ UNCHANGED aiVars
    /\ UNCHANGED simVars
    /\ UNCHANGED pluginVars
    /\ UNCHANGED now
    /\ UNCHANGED lifeVars

\* StateSnapshotManager.captureSnapshot; the process metrics and the
\* timestamp of the snapshot are left out
CaptureSnapshot ==
    /\ lastCall' = <<Outcome("captureSnapshot", captureWatchedVariables.raised,
                             captureWatchedVariables.captured)>>
    /\ UNCHANGED <<cloneArg, cloneResult, watchedVariables>>
    /\ UNCHANGED trackerVars
    /\ UNCHANGED aiVars
    /\ UNCHANGED simVars
    /\ UNCHANGED pluginVars
    /\ UNCHANGED now
    /\ UNCHANGED lifeVars

-----------------------------------------------------------------------------
(* DevInsight configuration *)

DefaultAsyncDepth == 50
DefaultSampling == 100

\* `x || d' on an optional number: undefined and 0 are falsy
OrDefault(opt, d) == IF opt = <<>> \/ opt = <<0>> THEN d ELSE opt[1]

normalizeConfig(config) ==
    [asyncDepth |-> OrDefault(config.asyncDepth, DefaultAsyncDepth),
     sampling |-> IF config.sampling # <<>> THEN config.sampling[1] ELSE DefaultSampling]

EmptyConfig == [sampling |-> <<>>, asyncDepth |-> <<>>]

Enabled == instance # <<>>
Config == instance[1].config

-----------------------------------------------------------------------------
(* RuntimeHookEngine *)

Flows == 1..NumFlows
MainFlow == 1    \* the flow of the host process outside every run()
NoContext == 0

\* AsyncLocalStorage.getStore for a flow: the context of the innermost run()
\* in progress that entered asyncLocalStorage.run, or NoContext
RECURSIVE StoreOf(_)
StoreOf(frames) ==
    IF frames = <<>> THEN NoContext
    ELSE IF frames[Len(frames)].created # NoContext THEN frames[Len(frames)].created
    ELSE StoreOf(SubSeq(frames, 1, Len(frames) - 1))

getCurrentContextShared(f) ==
    IF activeContexts = {} THEN NoContext
    ELSE CHOOSE c \in activeContexts : \A d \in activeContexts : d <= c
getCurrentContext(f) == StoreOf(stack[f])

getBreadcrumbsLastContext(f) ==
    IF getCurrentContext(f) # NoContext THEN contexts[getCurrentContext(f)].breadcrumbs
    ELSE IF contextCounter > 0 THEN contexts[contextCounter].breadcrumbs
    ELSE <<>>

getBreadcrumbs(f) ==
    IF getCurrentContext(f) # NoContext THEN contexts[getCurrentContext(f)].breadcrumbs
    ELSE <<>>

\* the sampling test of run(): `config.sampling && Math.random() > config.sampling'
SampledOut(cfg, draw) == cfg.sampling # 0 /\ draw > cfg.sampling

\* the `context' object that run() builds
ExecutionContextNoParent(f) == [breadcrumbs |-> <<>>, parent |-> NoContext]
ExecutionContext(f) == [breadcrumbs |-> <<>>, parent |-> getCurrentContext(f)]

\* RuntimeHookEngine.run up to the call of the callback
Run(f, draw) ==
    /\ Enabled
    /\ Len(stack[f]) < MaxNesting
    /\ contextCounter < MaxContexts
    /\ IF SampledOut(Config, draw)
       THEN /\ stack' = [stack EXCEPT ![f] = Append(@, [created |-> NoContext])]
            /\ UNCHANGED <<contextCounter, contexts, activeContexts>>
       ELSE LET contextId == contextCounter + 1
            IN  /\ contextCounter' = contextId
                /\ contexts' = contexts @@ (contextId :> ExecutionContext(f))
                /\ activeContexts' = activeContexts \cup {contextId}
                /\ stack' = [stack EXCEPT ![f] = Append(@, [created |-> contextId])]
    /\ UNCHANGED <<requested, instance, bcCounter, lastBundle, caller>>
    /\ UNCHANGED aiVars
    /\ UNCHANGED simVars
    /\ UNCHANGED pluginVars
    /\ UNCHANGED snapVars
    /\ UNCHANGED now
    /\ UNCHANGED lifeVars

\* the two ways the callback of run() ends
Outcomes == {"return", "throw"}

\* the callback of the innermost run() of the flow returns or throws:
\* asyncLocalStorage.run restores the store and the finally block runs
ExitRunNoFinally(f, outcome) ==
    /\ stack[f] # <<>>
    /\ LET frame == stack[f][Len(stack[f])]
       IN  /\ stack' = [stack EXCEPT ![f] = SubSeq(@, 1, Len(@) - 1)]
           /\ activeContexts' = IF frame.created # NoContext /\ outcome = "return"
                                THEN activeContexts \ {frame.created}
                                ELSE activeContexts
    /\ UNCHANGED <<requested, instance, contextCounter, contexts, bcCounter, lastBundle,
                   caller>>
    /\ UNCHANGED aiVars
    /\ UNCHANGED simVars
    /\ UNCHANGED pluginVars
    /\ UNCHANGED snapVars
    /\ UNCHANGED now
    /\ UNCHANGED lifeVars
ExitRun(f, outcome) ==
    /\ stack[f] # <<>>
    /\ outcome \in Outcomes
    /\ LET frame == stack[f][Len(stack[f])]
       IN  /\ stack' = [stack EXCEPT ![f] = SubSeq(@, 1, Len(@) - 1)]
           /\ activeContexts' = IF frame.created # NoContext
                                THEN activeContexts \ {frame.created}
                                ELSE activeContexts
    /\ UNCHANGED <<requested, instance, contextCounter, contexts, bcCounter, lastBundle,
                   caller>>
    /\ UNCHANGED aiVars
    /\ UNCHANGED simVars
    /\ UNCHANGED pluginVars
    /\ UNCHANGED snapVars
    /\ UNCHANGED now
    /\ UNCHANGED lifeVars

\* what calling a callback once yields: how it ends and with which value
Invoke(callback) == [ends |-> callback.ends, value |-> callback.value]

\* run() as its caller sees it: the number of calls of the callback, what
\* the callback yielded, and how run() itself ends and with which value.  In
\* both branches the callback's return value is returned and its exception
\* passes through (`return callback()', `try { return ... } finally').
runOutcomeSampledOutSkipsCallback(cfg, draw, callback) ==
    IF SampledOut(cfg, draw)
    THEN [calls |-> 0, ends |-> "return", value |-> 0]
    ELSE [calls |-> 1, ends |-> Invoke(callback).ends, value |-> Invoke(callback).value]
runOutcome(cfg, draw, callback) ==
    IF SampledOut(cfg, draw)
    THEN [calls |-> 1, ends |-> Invoke(callback).ends, value |-> Invoke(callback).value]
    ELSE [calls |-> 1, ends |-> Invoke(callback).ends, value |-> Invoke(callback).value]

\* RuntimeHookEngine.run from call to return, for a callback that makes no
\* call of the tracker: the context is stored, the callback runs and the
\* finally block deletes the context again
RunToEnd(f, draw, callback) ==
    /\ Enabled
    /\ contextCounter < MaxContexts
    /\ lastRun' = <<[callback |-> callback,
                     sampledOut |-> SampledOut(Config, draw),
                     outcome |-> runOutcome(Config, draw, callback)]>>
    /\ IF SampledOut(Config, draw)
       THEN UNCHANGED <<contextCounter, contexts, activeContexts>>
       ELSE LET contextId == contextCounter + 1
            IN  /\ contextCounter' = contextId
                /\ contexts' = contexts @@ (contextId :> ExecutionContext(f))
                /\ activeContexts' = (activeContexts \cup {contextId}) \ {contextId}
    /\ UNCHANGED <<requested, instance, stack, bcCounter, lastBundle, caller>>
    /\ UNCHANGED <<instances, listeners, exited, lastApi, pending>>
    /\ UNCHANGED aiVars
    /\ UNCHANGED simVars
    /\ UNCHANGED pluginVars
    /\ UNCHANGED snapVars
    /\ UNCHANGED now

\* the `fullBreadcrumb' object that addBreadcrumb builds for a context
fullBreadcrumbParentIsLastId(context, type) ==
    [type |-> type,
     id |-> bcCounter + 1,
     parentId |-> IF bcCounter = 0 THEN <<>> ELSE <<bcCounter>>]
fullBreadcrumb(context, type) ==
    LET crumbs == contexts[context].breadcrumbs
    IN  [type |-> type,
         id |-> bcCounter + 1,
         parentId |-> IF crumbs = <<>> THEN <<>> ELSE <<crumbs[Len(crumbs)].id>>]

AddBreadcrumb(f, type) ==
    /\ Enabled
    /\ bcCounter < MaxCrumbs
    /\ LET context == getCurrentContext(f)
           maxDepth == IF Config.asyncDepth # 0 THEN Config.asyncDepth ELSE DefaultAsyncDepth
       IN  IF context = NoContext THEN UNCHANGED <<contexts, bcCounter>>
           ELSE IF Len(contexts[context].breadcrumbs) >= maxDepth
                THEN UNCHANGED <<contexts, bcCounter>>
           ELSE /\ bcCounter' = bcCounter + 1
                /\ contexts' = [contexts EXCEPT
                       ![context].breadcrumbs = Append(@, fullBreadcrumb(context, type))]
    /\ caller' = f
    /\ UNCHANGED <<requested, instance, contextCounter, activeContexts, stack, lastBundle>>
    /\ UNCHANGED aiVars
    /\ UNCHANGED simVars
    /\ UNCHANGED pluginVars
    /\ UNCHANGED snapVars
    /\ UNCHANGED now
    /\ UNCHANGED lifeVars

\* the callback of the innermost run() of the flow, or code it called,
\* schedules a continuation (a timer, a promise reaction, an awaited
\* operation): the asynchronous resource keeps the store of that moment
Defer(f) ==
    /\ Enabled
    /\ stack[f] # <<>>
    /\ pending' = pending \cup {[flow |-> f, store |-> getCurrentContext(f)]}
    /\ UNCHANGED <<lastRun, instances, listeners, exited, lastApi>>
    /\ UNCHANGED trackerVars
    /\ UNCHANGED aiVars
    /\ UNCHANGED simVars
    /\ UNCHANGED pluginVars
    /\ UNCHANGED snapVars
    /\ UNCHANGED now

\* a scheduled continuation runs and calls addBreadcrumb: there
\* asyncLocalStorage.getStore() is the store the continuation carries
Resume(continuation, type) ==
    /\ Enabled
    /\ continuation \in pending
    /\ bcCounter < MaxCrumbs
    /\ pending' = pending \ {continuation}
    /\ LET context == continuation.store
           maxDepth == IF Config.asyncDepth # 0 THEN Config.asyncDepth ELSE DefaultAsyncDepth
       IN  IF context = NoContext THEN UNCHANGED <<contexts, bcCounter>>
           ELSE IF Len(contexts[context].breadcrumbs) >= maxDepth
                THEN UNCHANGED <<contexts, bcCounter>>
           ELSE /\ bcCounter' = bcCounter + 1
                /\ contexts' = [contexts EXCEPT
                       ![context].breadcrumbs = Append(@, fullBreadcrumb(context, type))]
    /\ caller' = continuation.flow
    /\ UNCHANGED <<requested, instance, contextCounter, activeContexts, stack, lastBundle>>
    /\ UNCHANGED <<lastRun, instances, listeners, exited, lastApi>>
    /\ UNCHANGED aiVars
    /\ UNCHANGED simVars
    /\ UNCHANGED pluginVars
    /\ UNCHANGED snapVars
    /\ UNCHANGED now

-----------------------------------------------------------------------------
(* DevInsight and ErrorInterceptor *)

Events == {"uncaughtException", "unhandledRejection"}

\* A listener is a function object.  A listener of the host application is
\* HostListener; `handleX.bind(this)' evaluated by instance `id' for the
\* `bound'-th time is a new function object each time.
HostListener == [of |-> 0, bound |-> 0]
BoundHandler(id, bound) == [of |-> id, bound |-> bound]

\* emitter.removeListener: removes the most recently added occurrence of
\* that very function, if there is one
RECURSIVE removeListener(_, _)
removeListener(list, fn) ==
    IF list = <<>> THEN <<>>
    ELSE IF list[Len(list)] = fn THEN SubSeq(list, 1, Len(list) - 1)
    ELSE Append(removeListener(SubSeq(list, 1, Len(list) - 1), fn), list[Len(list)])

\* ErrorInterceptor.storeOriginalHandlers: the first listener present, per event
storeOriginalHandlers ==
    [e \in Events |-> IF Len(listeners[e]) > 0 THEN <<listeners[e][1]>> ELSE <<>>]

\* ErrorInterceptor.install: process.on with the first bound function
install(id) == [e \in Events |-> Append(listeners[e], BoundHandler(id, 1))]

\* ErrorInterceptor.uninstall: process.removeListener with a second bound function
uninstall(id) == [e \in Events |-> removeListener(listeners[e], BoundHandler(id, 2))]

\* the DevInsight object after `new DevInsight(config)' and start()
Started(config) ==
    [config |-> normalizeConfig(config),
     isEnabled |-> TRUE,
     originalHandlers |-> storeOriginalHandlers,
     handled |-> 0]

\* the DevInsight object after stop()
StoppedStaysEnabled(inst) == inst
Stopped(inst) == [inst EXCEPT !.isEnabled = FALSE]

\* what a call of the static interface or a process event did
Api(op, config, returned, raised, nextCalls, hostCalls, handledBy) ==
    [op |-> op, config |-> config, returned |-> returned, raised |-> raised,
     nextCalls |-> nextCalls, hostCalls |-> hostCalls, handledBy |-> handledBy]

\* DevInsight.enable when no instance exists
Enable(config) ==
    /\ ~Enabled
    /\ ~exited
    /\ Len(instances) < MaxInstances
    /\ requested' = config
    /\ instance' = <<[config |-> normalizeConfig(config), isEnabled |-> TRUE]>>
    /\ instances' = Append(instances, Started(config))
    /\ listeners' = install(Len(instances) + 1)
    /\ lastApi' = <<Api("enable", <<config>>, Len(instances) + 1, FALSE, 0, 0, <<>>)>>
    /\ UNCHANGED <<lastRun, exited, pending>>
    /\ UNCHANGED <<contextCounter, activeContexts, contexts, stack, bcCounter, lastBundle,
                   caller>>
    /\ UNCHANGED aiVars
    /\ UNCHANGED simVars
    /\ UNCHANGED pluginVars
    /\ UNCHANGED snapVars
    /\ UNCHANGED now

\* The breadcrumbs field of an ErrorContext is an array object: the array of
\* the context in `crumbsOf', or a fresh empty array when that is NoContext.
\* `built' is what the array held when the bundle was built.
buildErrorContext(f, error, type) ==
    [error |-> error,
     type |-> type,
     crumbsOf |-> getCurrentContext(f),
     built |-> getBreadcrumbs(f),
     timestamp |-> now,
     contextId |-> getCurrentContext(f)]

BundleTrail(bundle) ==
    IF bundle.crumbsOf # NoContext THEN contexts[bundle.crumbsOf].breadcrumbs ELSE <<>>

\* the ErrorContext as analyze reads it
AsCtx(bundle) ==
    [error |-> bundle.error, type |-> bundle.type,
     breadcrumbs |-> BundleTrail(bundle), timestamp |-> bundle.timestamp,
     contextId |-> bundle.contextId]

\* DevInsight.trackError -> ErrorInterceptor.trackError
TrackError(f, error) ==
    /\ Enabled
    /\ Len(errorHistory) < MaxErrors
    /\ LET context == buildErrorContext(f, error, "custom")
       IN  /\ lastBundle' = <<context>>
           /\ caller' = f
           /\ analyze(AsCtx(context))
    /\ UNCHANGED <<requested, instance, contextCounter, activeContexts, contexts, stack,
                   bcCounter>>
    /\ UNCHANGED simVars
    /\ UNCHANGED pluginVars
    /\ UNCHANGED snapVars
    /\ UNCHANGED now
    /\ UNCHANGED lifeVars

\* DevInsight.enable when an instance exists: it warns and returns that instance
EnableWhileEnabled(config) ==
    /\ Enabled
    /\ ~exited
    /\ lastApi' = <<Api("enable", <<config>>, Len(instances), FALSE, 0, 0, <<>>)>>
    /\ UNCHANGED <<lastRun, instances, listeners, exited, pending>>
    /\ UNCHANGED trackerVars
    /\ UNCHANGED aiVars
    /\ UNCHANGED simVars
    /\ UNCHANGED pluginVars
    /\ UNCHANGED snapVars
    /\ UNCHANGED now

\* DevInsight.disable: stop() uninstalls the handlers, clears the live
\* contexts and the watches; the components of the instance are then out of
\* reach of DevInsight and the next instance is built with new ones
Disable ==
    /\ ~exited
    /\ lastApi' = <<Api("disable", <<>>, 0, FALSE, 0, 0, <<>>)>>
    /\ IF ~Enabled
       THEN /\ UNCHANGED <<instances, listeners>>
            /\ UNCHANGED trackerVars
            /\ UNCHANGED <<errorHistory, plugins, watchedVariables>>
       ELSE /\ listeners' = uninstall(Len(instances))
            /\ activeContexts' = {}
            /\ watchedVariables' = <<>>
            /\ instances' = [instances EXCEPT ![Len(instances)] = Stopped(@)]
            /\ instance' = <<>>
            /\ contextCounter' = 0
            /\ contexts' = <<>>
            /\ errorHistory' = <<>>
            /\ plugins' = <<>>
            /\ UNCHANGED <<requested, stack, bcCounter, lastBundle, caller>>
    /\ UNCHANGED <<lastRun, exited, pending>>
    /\ UNCHANGED <<lastCtx, priorHistory, lastBase, lastAnalysis>>
    /\ UNCHANGED simVars
    /\ UNCHANGED hookCalls
    /\ UNCHANGED <<cloneArg, cloneResult, lastCall>>
    /\ UNCHANGED now

\* a value thrown, rejected with, or given to the middleware: an Error, or
\* something else that is truthy or not and that String() accepts or not
\* (String() of an object without toString raises a TypeError)
ErrorValue(name, message) ==
    [isError |-> TRUE, name |-> name, message |-> message, truthy |-> TRUE,
     stringable |-> TRUE]
OtherValue(string, truthy, stringable) ==
    [isError |-> FALSE, name |-> "", message |-> string, truthy |-> truthy,
     stringable |-> stringable]

\* `value instanceof Error ? value : new Error(String(value))'
toError(value) ==
    IF value.isError THEN [name |-> value.name, message |-> value.message]
    ELSE [name |-> "Error", message |-> value.message]

\* handleUncaughtException / handleUnhandledRejection of instance `id', and
\* the call of one listener.  `acc' counts the calls of host listeners and
\* the failures processed per instance, and tells whether process.exit
\* was reached, after which nothing else runs.
RECURSIVE invokeListener(_, _, _)
handle(id, event, acc) ==
    LET processed == [acc EXCEPT !.by[id] = @ + 1]
        originalHandler == instances[id].originalHandlers[event]
        called == IF originalHandler = <<>> THEN processed
                  ELSE invokeListener(originalHandler[1], event, processed)
    IN  IF event = "uncaughtException" THEN [called EXCEPT !.exited = TRUE]
        ELSE called
invokeListener(listener, event, acc) ==
    IF acc.exited THEN acc
    ELSE IF listener.of = 0 THEN [acc EXCEPT !.host = @ + 1]
    ELSE handle(listener.of, event, acc)

\* process.emit(event, ...): the listeners registered, in order
RECURSIVE emitFrom(_, _, _)
emitFrom(event, k, acc) ==
    IF k > Len(listeners[event]) THEN acc
    ELSE emitFrom(event, k + 1, invokeListener(listeners[event][k], event, acc))
emit(event) ==
    emitFrom(event, 1, [host |-> 0, by |-> [i \in DOMAIN instances |-> 0],
                        exited |-> FALSE])

\* an uncaught exception or an unhandled rejection reaches the process
\* while at least one listener is registered for it
Signal(f, event, reason) ==
    /\ ~exited
    /\ listeners[event] # <<>>
    /\ Len(errorHistory) < MaxErrors
    /\ \A i \in DOMAIN instances : instances[i].handled < MaxSignals
    /\ LET done == emit(event)
       IN  /\ instances' = [i \in DOMAIN instances |->
                               [instances[i] EXCEPT !.handled = @ + done.by[i]]]
           /\ exited' = done.exited
           /\ lastApi' = <<Api(event, <<>>, 0, FALSE, 0, done.host, done.by)>>
           /\ IF Enabled /\ done.by[Len(instances)] > 0
              THEN LET context == buildErrorContext(f, toError(reason), event)
                   IN  /\ lastBundle' = <<context>>
                       /\ caller' = f
                       /\ analyze(AsCtx(context))
              ELSE /\ UNCHANGED <<lastBundle, caller>>
                   /\ UNCHANGED aiVars
    /\ UNCHANGED <<lastRun, listeners, pending>>
    /\ UNCHANGED <<requested, instance, contextCounter, activeContexts, contexts, stack,
                   bcCounter>>
    /\ UNCHANGED simVars
    /\ UNCHANGED pluginVars
    /\ UNCHANGED snapVars
    /\ UNCHANGED now

\* the middleware returned by DevInsight.expressErrorHandler, called with
\* err: DevInsight.trackError raises when there is no instance, String(err)
\* raises when err cannot be converted; next(err) is the last statement
MiddlewareRaises(err) ==
    \/ err.isError /\ ~Enabled
    \/ ~err.isError /\ err.truthy /\ (~err.stringable \/ ~Enabled)

Middleware(f, err) ==
    /\ ~exited
    /\ Len(errorHistory) < MaxErrors
    /\ lastApi' = <<Api("middleware", <<>>, 0, MiddlewareRaises(err),
                        IF MiddlewareRaises(err) THEN 0 ELSE 1, 0, <<>>)>>
    /\ IF (err.isError \/ err.truthy) /\ ~MiddlewareRaises(err)
       THEN LET context == buildErrorContext(f, toError(err), "custom")
            IN  /\ lastBundle' = <<context>>
                /\ caller' = f
                /\ analyze(AsCtx(context))
       ELSE /\ UNCHANGED <<lastBundle, caller>>
            /\ UNCHANGED aiVars
    /\ UNCHANGED <<lastRun, instances, listeners, exited, pending>>
    /\ UNCHANGED <<requested, instance, contextCounter, activeContexts, contexts, stack,
                   bcCounter>>
    /\ UNCHANGED simVars
    /\ UNCHANGED pluginVars
    /\ UNCHANGED snapVars
    /\ UNCHANGED now

\* the host application registers a listener of its own: process.on(event, fn)
HostOn(event) ==
    /\ ~exited
    /\ HostListener \notin Range(listeners[event])
    /\ listeners' = [listeners EXCEPT ![event] = Append(@, HostListener)]
    /\ UNCHANGED <<lastRun, instances, exited, lastApi, pending>>
    /\ UNCHANGED trackerVars
    /\ UNCHANGED aiVars
    /\ UNCHANGED simVars
    /\ UNCHANGED pluginVars
    /\ UNCHANGED snapVars
    /\ UNCHANGED now

\* PluginSystem.register: a second plugin of the same name is ignored
register(plugin) ==
    IF plugin.name \in DOMAIN plugins THEN plugins
    ELSE plugins @@ (plugin.name :> plugin)

\* DevInsight.registerPlugin
RegisterPlugin(plugin) ==
    /\ Enabled
    /\ plugins' = register(plugin)
    /\ UNCHANGED hookCalls
    /\ UNCHANGED snapVars
    /\ UNCHANGED trackerVars
    /\ UNCHANGED aiVars
    /\ UNCHANGED simVars
    /\ UNCHANGED now
    /\ UNCHANGED lifeVars

-----------------------------------------------------------------------------
(* Direct calls of the classifier and of the similarity function *)

\* ReasoningEngine.analyze on an ErrorContext value
AnalyzeCall(ctx) ==
    /\ Len(errorHistory) < MaxErrors
    /\ analyze(ctx)
    /\ UNCHANGED trackerVars
    /\ UNCHANGED simVars
    /\ UNCHANGED pluginVars
    /\ UNCHANGED snapVars
    /\ UNCHANGED now
    /\ UNCHANGED lifeVars

\* LocalAI.enhance on an analysis whose confidence is any value in [0, 1]
EnhanceCall(ctx, confidence) ==
    /\ Len(errorHistory) < MaxErrors
    /\ enhance(ctx, [baseAnalysisOf(ctx) EXCEPT !.confidence = confidence])
    /\ UNCHANGED trackerVars
    /\ UNCHANGED simVars
    /\ UNCHANGED pluginVars
    /\ UNCHANGED snapVars
    /\ UNCHANGED now
    /\ UNCHANGED lifeVars

\* ReasoningEngine.analyze on an ErrorContext built at the next clock tick
AnalyzeAtNextTick(ctx) ==
    /\ now < MaxTime
    /\ now' = now + 1
    /\ analyze([ctx EXCEPT !.timestamp = now'])
    /\ UNCHANGED trackerVars
    /\ UNCHANGED simVars
    /\ UNCHANGED pluginVars
    /\ UNCHANGED snapVars
    /\ UNCHANGED lifeVars

\* LocalAI.enhance in a series of failures of a few kinds
EnhanceInSeries(ctx, confidence) ==
    /\ Len(errorHistory) < MaxSeries
    /\ enhance(ctx, [baseAnalysisOf(ctx) EXCEPT !.confidence = confidence])
    /\ UNCHANGED trackerVars
    /\ UNCHANGED simVars
    /\ UNCHANGED pluginVars
    /\ UNCHANGED snapVars
    /\ UNCHANGED now
    /\ UNCHANGED lifeVars

\* StateSnapshotManager.cloneValue(value) with its default arguments
CloneCall ==
    /\ cloneArg # <<>>
    /\ cloneResult = <<>>
    /\ cloneResult' = <<cloneValue(cloneArg[1], 0, {}, <<>>)>>
    /\ UNCHANGED <<cloneArg, watchedVariables, lastCall>>
    /\ UNCHANGED trackerVars
    /\ UNCHANGED aiVars
    /\ UNCHANGED simVars
    /\ UNCHANGED pluginVars
    /\ UNCHANGED now
    /\ UNCHANGED lifeVars

CalcSimilarity ==
    /\ simArgs # <<>>
    /\ simResult = <<>>
    /\ simResult' = <<calculateSimilarity(simArgs[1], simArgs[2])>>
    /\ UNCHANGED simArgs
    /\ UNCHANGED trackerVars
    /\ UNCHANGED aiVars
    /\ UNCHANGED pluginVars
    /\ UNCHANGED snapVars
    /\ UNCHANGED now
    /\ UNCHANGED lifeVars

-----------------------------------------------------------------------------
(* Inputs *)

SamplingChoices == {<<>>, <<0>>, <<50>>, <<100>>, <<150>>, <<-50>>}
DepthChoices == {<<>>, <<0>>, <<1>>, <<2>>, <<-1>>}
\* each option is varied with the other left out, and both are set once
Configs ==
    {[sampling |-> s, asyncDepth |-> <<>>] : s \in SamplingChoices}
        \cup {[sampling |-> <<>>, asyncDepth |-> d] : d \in DepthChoices}
        \cup {[sampling |-> <<50>>, asyncDepth |-> <<1>>]}

\* the configurations given to enable in a host process
LifeConfigs == {[sampling |-> <<>>, asyncDepth |-> <<>>],
                [sampling |-> <<50>>, asyncDepth |-> <<1>>]}

\* values of Math.random(), in hundredths
Draws == {0, 75}

CrumbTypes == {"function", "promise"}

\* units of work given to run(): they return or throw one of two values
Callbacks == {[ends |-> e, value |-> v] : e \in Outcomes, v \in {1, 2}}

MsgPlain == Msg(<<"a", "b", "b">>)
MsgPlainVariant == Msg(<<"A", "b", "b", "a">>)
MsgCannotRead == PCannotReadPropertiesOfUndefined
MsgAsyncNotFunction == Msg(<<"async", "a", "is", "not", "a", "function">>)

MsgCannotReadModuleNotFound ==
    PCannotReadPropertiesOfUndefined \o <<Blank>> \o PModuleNotFound

\* "Cannot read properties of undefined (reading 'theme')"
MsgReadingTheme ==
    PCannotReadPropertiesOfUndefined \o <<Blank, "(reading", Blank, "'theme')">>

AIMessages == {MsgPlain, MsgPlainVariant, MsgCannotRead, MsgAsyncNotFunction,
               MsgCannotReadModuleNotFound, MsgReadingTheme}
AINames == {"Error", "TypeError"}
ErrorTypes == {"uncaughtException", "unhandledRejection", "custom"}
AITrails == { <<>>, <<[type |-> "promise", id |-> 1, parentId |-> <<>>]>> }

AIContexts ==
    {[error |-> [name |-> n, message |-> m], type |-> t, breadcrumbs |-> b,
      timestamp |-> 0, contextId |-> NoContext] :
        n \in AINames, m \in AIMessages, t \in ErrorTypes, b \in AITrails}

HistContext ==
    [error |-> [name |-> "Error", message |-> MsgPlain], type |-> "custom",
     breadcrumbs |-> <<>>, timestamp |-> 0, contextId |-> NoContext]

\* two messages of ten words with seven words in common
MsgTenWords == Msg(<<"w1", "w2", "w3", "w4", "w5", "w6", "w7", "w8", "w9", "w10">>)
MsgSevenOfTen == Msg(<<"w1", "w2", "w3", "w4", "w5", "w6", "w7", "x8", "x9", "x10">>)

SeriesContexts ==
    {[error |-> e, type |-> "custom", breadcrumbs |-> <<>>, timestamp |-> 0,
      contextId |-> NoContext] :
        e \in {[name |-> "Error", message |-> MsgPlain],
                [name |-> "TypeError", message |-> MsgCannotRead],
                [name |-> "TypeError", message |-> MsgAsyncNotFunction],
                [name |-> "Error", message |-> MsgTenWords],
                [name |-> "Error", message |-> MsgSevenOfTen],
                [name |-> "TypeError", message |-> MsgTenWords]}}

\* Values for cloneValue are drawn as object graphs: node k of 1..n refers
\* to node k + 1 by its property `next', the last node refers to `back', and
\* node 1 may have a second property `other'. A target is a node, or
\* ANumber, AFunction or NoProperty.
ANumber == 0
AFunction == -1
NoProperty == -2

PropertyKey(kind, key, i) == IF kind = "array" THEN <<"0", "1">>[i] ELSE key

GraphNode(n, kind, back, other, otherFirst, k) ==
    LET next == IF k < n THEN k + 1 ELSE back
        targets == IF k # 1 \/ other = NoProperty THEN <<[key |-> "next", target |-> next]>>
                   ELSE IF otherFirst
                        THEN <<[key |-> "other", target |-> other],
                               [key |-> "next", target |-> next]>>
                   ELSE <<[key |-> "next", target |-> next],
                          [key |-> "other", target |-> other]>>
    IN  [kind |-> kind,
         props |-> [i \in 1..Len(targets) |->
                       [key |-> PropertyKey(kind, targets[i].key, i),
                        target |-> targets[i].target]]]

CloneGraphs ==
    {[k \in 1..n |-> GraphNode(n, kind, back, other, otherFirst, k)] :
        n \in 1..MaxChain, kind \in {"object", "array"},
        back \in {ANumber} \cup (1..MaxChain),
        other \in {NoProperty, ANumber, AFunction} \cup (1..MaxChain),
        otherFirst \in BOOLEAN}

\* the graphs whose references stay inside the graph
ClosedGraphs ==
    {g \in CloneGraphs :
        \A k \in DOMAIN g : \A i \in 1..Len(g[k].props) : g[k].props[i].target <= Len(g)}

\* deeper than any position cloneValue looks at
UnfoldDepth == CloneMaxDepth + 2

\* the value at a node of the graph, written out down to UnfoldDepth; the
\* identity of the container of node k is <<0, k>>
RECURSIVE Unfold(_, _, _)
Unfold(graph, target, depth) ==
    IF target = ANumber THEN Prim("42")
    ELSE IF target = AFunction THEN Function("returnsTrue")
    ELSE IF depth > UnfoldDepth THEN Prim("<not unfolded>")
    ELSE Container(graph[target].kind, <<0, target>>,
             [i \in 1..Len(graph[target].props) |->
                 Property(graph[target].props[i].key,
                          Unfold(graph, graph[target].props[i].target, depth + 1))])

CloneValues == {Unfold(graph, 1, 0) : graph \in ClosedGraphs}

WatchNames == {"user", "settings"}

\* watched values: a number, a plain object, an object that contains itself,
\* an object with a sensitive key, and objects whose own property
\* `hasOwnProperty' is a function or a number
WatchValues ==
    {Prim("42"),
     Container("object", <<0, 1>>, <<Property("next", Prim("42"))>>),
     Unfold([k \in 1..1 |-> GraphNode(1, "object", 1, NoProperty, TRUE, k)], 1, 0),
     Container("object", <<0, 1>>,
         <<Property("token", Prim("secret value")), Property("next", Prim("42"))>>),
     Container("object", <<0, 1>>,
         <<Property("hasOwnProperty", Function("returnsTrue")),
           Property("next", Prim("42"))>>),
     Container("object", <<0, 1>>,
         <<Property("hasOwnProperty", Function("returnsFalse")),
           Property("next", Prim("42"))>>),
     Container("object", <<0, 1>>,
         <<Property("hasOwnProperty", Prim("42")), Property("next", Prim("42"))>>)}

BaseConfidences == {0, 50 * ConfDen, One}

TrackedErrors == {[name |-> "Error", message |-> MsgPlain],
                  [name |-> "TypeError", message |-> MsgCannotRead]}

\* values that reach the handlers and the middleware: an Error, a string,
\* undefined, and an object created without a prototype
SignalValues ==
    {ErrorValue("TypeError", MsgCannotRead), OtherValue(MsgPlain, TRUE, TRUE)}
MiddlewareValues ==
    SignalValues \cup {OtherValue(Msg(<<"undefined">>), FALSE, TRUE),
                       OtherValue(<<>>, TRUE, FALSE)}

Plugins == {[name |-> n, version |-> v] : n \in {"metrics", "notifier"}, v \in {1, 2}}

-----------------------------------------------------------------------------
(* Specifications *)

Init ==
    /\ requested = EmptyConfig
    /\ instance = <<>>
    /\ contextCounter = 0
    /\ activeContexts = {}
    /\ contexts = <<>>
    /\ stack = [f \in Flows |-> <<>>]
    /\ bcCounter = 0
    /\ lastBundle = <<>>
    /\ lastCtx = <<>>
    /\ errorHistory = <<>>
    /\ priorHistory = <<>>
    /\ lastBase = <<>>
    /\ lastAnalysis = <<>>
    /\ simArgs = <<>>
    /\ simResult = <<>>
    /\ caller = 0
    /\ plugins = <<>>
    /\ hookCalls = {}
    /\ now = 0
    /\ cloneArg = <<>>
    /\ cloneResult = <<>>
    /\ watchedVariables = <<>>
    /\ lastCall = <<>>
    /\ lastRun = <<>>
    /\ instances = <<>>
    /\ listeners = [e \in Events |-> <<>>]
    /\ exited = FALSE
    /\ lastApi = <<>>
    /\ pending = {}

\* the tracker, the assembler and the classifier behind DevInsight
Next ==
    \/ \E config \in Configs : Enable(config)
    \/ \E f \in Flows, draw \in Draws : Run(f, draw)
    \/ \E f \in Flows, outcome \in Outcomes : ExitRun(f, outcome)
    \/ \E f \in Flows, type \in CrumbTypes : AddBreadcrumb(f, type)
    \/ \E f \in Flows, error \in TrackedErrors : TrackError(f, error)

Spec == Init /\ [][Next]_vars

\* units of work run to their end, also inside a unit of work in progress
NextRun ==
    \/ \E config \in Configs : Enable(config)
    \/ \E f \in Flows, draw \in Draws : Run(f, draw)
    \/ \E f \in Flows, outcome \in Outcomes : ExitRun(f, outcome)
    \/ \E f \in Flows, draw \in Draws, callback \in Callbacks : RunToEnd(f, draw, callback)

SpecRun == Init /\ [][NextRun]_vars

\* DevInsight enabled and disabled in a host process that has listeners of
\* its own, receives failures and calls the middleware
NextLife ==
    \/ \E config \in LifeConfigs : Enable(config)
    \/ \E config \in LifeConfigs : EnableWhileEnabled(config)
    \/ Disable
    \/ \E event \in Events : HostOn(event)
    \/ \E event \in Events, reason \in SignalValues : Signal(MainFlow, event, reason)
    \/ \E err \in MiddlewareValues : Middleware(MainFlow, err)

SpecLife == Init /\ [][NextLife]_vars

\* units of work whose callbacks schedule continuations
NextAsync ==
    \/ \E config \in LifeConfigs : Enable(config)
    \/ \E f \in Flows, draw \in Draws : Run(f, draw)
    \/ \E f \in Flows, outcome \in Outcomes : ExitRun(f, outcome)
    \/ \E f \in Flows, type \in CrumbTypes : AddBreadcrumb(f, type)
    \/ \E f \in Flows : Defer(f)
    \/ \E f \in Flows, store \in 0..MaxContexts, type \in CrumbTypes :
           Resume([flow |-> f, store |-> store], type)

SpecAsync == Init /\ [][NextAsync]_vars

\* plugins registered on DevInsight, and errors reported to it
NextPlugin ==
    \/ \E config \in Configs : Enable(config)
    \/ \E plugin \in Plugins : RegisterPlugin(plugin)
    \/ \E f \in Flows, error \in TrackedErrors : TrackError(f, error)

SpecPlugin == Init /\ [][NextPlugin]_vars

\* one error analysed at each tick of the clock, past the history capacity
NextHist == AnalyzeAtNextTick(HistContext)

SpecHist == Init /\ [][NextHist]_vars

\* enhance on series of up to MaxSeries failures of three kinds
NextSeries ==
    \E ctx \in SeriesContexts, confidence \in BaseConfidences :
        EnhanceInSeries(ctx, confidence)

SpecSeries == Init /\ [][NextSeries]_vars

\* values watched, updated and captured on a StateSnapshotManager
NextSnap ==
    \/ \E variableName \in WatchNames, value \in WatchValues : Watch(variableName, value)
    \/ \E variableName \in WatchNames, value \in WatchValues :
           UpdateWatch(variableName, value)
    \/ CaptureSnapshot

SpecSnap == Init /\ [][NextSnap]_vars

\* cloneValue on every value of the bounded family
InitClone ==
    /\ cloneArg \in {<<value>> : value \in CloneValues}
    /\ cloneResult = <<>>
    /\ watchedVariables = <<>>
    /\ lastCall = <<>>
    /\ lastRun = <<>>
    /\ instances = <<>>
    /\ listeners = [e \in Events |-> <<>>]
    /\ exited = FALSE
    /\ lastApi = <<>>
    /\ pending = {}
    /\ simArgs = <<>>
    /\ simResult = <<>>
    /\ requested = EmptyConfig
    /\ instance = <<>>
    /\ contextCounter = 0
    /\ activeContexts = {}
    /\ contexts = <<>>
    /\ stack = [f \in Flows |-> <<>>]
    /\ bcCounter = 0
    /\ lastBundle = <<>>
    /\ lastCtx = <<>>
    /\ errorHistory = <<>>
    /\ priorHistory = <<>>
    /\ lastBase = <<>>
    /\ lastAnalysis = <<>>
    /\ caller = 0
    /\ plugins = <<>>
    /\ hookCalls = {}
    /\ now = 0

NextClone == CloneCall

SpecClone == InitClone /\ [][NextClone]_vars

\* the classifier alone: every analysis comes from ReasoningEngine.analyze
NextAnalyze == \E ctx \in AIContexts : AnalyzeCall(ctx)

SpecAnalyze == Init /\ [][NextAnalyze]_vars

\* the classifier and the history layer on ErrorContext values
NextAI ==
    \/ \E ctx \in AIContexts : AnalyzeCall(ctx)
    \/ \E ctx \in AIContexts, confidence \in BaseConfidences : EnhanceCall(ctx, confidence)

SpecAI == Init /\ [][NextAI]_vars

\* calculateSimilarity on every pair of bounded messages
InitSim ==
    /\ simArgs \in SimMessages \X SimMessages
    /\ simResult = <<>>
    /\ requested = EmptyConfig
    /\ instance = <<>>
    /\ contextCounter = 0
    /\ activeContexts = {}
    /\ contexts = <<>>
    /\ stack = [f \in Flows |-> <<>>]
    /\ bcCounter = 0
    /\ lastBundle = <<>>
    /\ lastCtx = <<>>
    /\ errorHistory = <<>>
    /\ priorHistory = <<>>
    /\ lastBase = <<>>
    /\ lastAnalysis = <<>>
    /\ caller = 0
    /\ plugins = <<>>
    /\ hookCalls = {}
    /\ now = 0
    /\ cloneArg = <<>>
    /\ cloneResult = <<>>
    /\ watchedVariables = <<>>
    /\ lastCall = <<>>
    /\ lastRun = <<>>
    /\ instances = <<>>
    /\ listeners = [e \in Events |-> <<>>]
    /\ exited = FALSE
    /\ lastApi = <<>>
    /\ pending = {}

NextSim == CalcSimilarity

SpecSim == InitSim /\ [][NextSim]_vars

-----------------------------------------------------------------------------
(* Properties *)

\* the depth bound the caller of enable asked for
ConfiguredDepth ==
    IF requested.asyncDepth = <<>> THEN DefaultAsyncDepth ELSE requested.asyncDepth[1]

\* C1: for every configured depth d >= 0 (0 and 1 included, 50 when none is
\* configured) no context ever holds more breadcrumbs than the configured depth.
C1_DepthBound ==
    (Enabled /\ ConfiguredDepth >= 0) =>
        \A id \in DOMAIN contexts : Len(contexts[id].breadcrumbs) <= ConfiguredDepth

\* C2: with the sampling rate configured as 0 no run() creates a context: the
\* live store stays empty, no flow has a current context and no breadcrumb is kept.
C2_ZeroSamplingNoContext ==
    (Enabled /\ requested.sampling = <<0>>) =>
        /\ activeContexts = {}
        /\ \A f \in Flows : getCurrentContext(f) = NoContext
        /\ contextCounter = 0

RuleTerms ==
    {PCannotReadProperty, PCannotReadPropertiesOfUndefined, PCannotReadPropertiesOfNull,
     PPromise, PAsync, PIsNotAFunction, PIsNotAConstructor, PCannotFindModule,
     PModuleNotFound, PCannotResolveModule}

\* the case of C3: an analysed unhandled rejection without promise breadcrumb
\* whose message holds none of the terms the rules look for
C3_Case ==
    /\ lastCtx # <<>>
    /\ lastBase = <<baseAnalysisOf(lastCtx[1])>>
    /\ lastCtx[1].type = "unhandledRejection"
    /\ \A i \in 1..Len(lastCtx[1].breadcrumbs) : lastCtx[1].breadcrumbs[i].type # "promise"
    /\ \A term \in RuleTerms : ~StrIncludes(lastCtx[1].error.message, term)

\* C3 as stated: in that case no rule matches, the causes are the single
\* generic cause 'Unknown error cause' (0.3) and the pattern is absent.
C3_GenericCauseOnly ==
    C3_Case =>
        /\ lastAnalysis[1].likelyCauses = <<UnknownCause>>
        /\ lastAnalysis[1].pattern = Undefined

\* C3 amended: in that case exactly the unhandled-rejection rule matches, the
\* causes are the single cause 'Promise rejection was not caught' (1.0) and
\* the pattern is 'unhandled-rejection'.
C3_UnhandledRejectionRuleOnly ==
    C3_Case =>
        /\ lastAnalysis[1].likelyCauses = <<Cause("Promise rejection was not caught", 100)>>
        /\ lastAnalysis[1].pattern = "unhandled-rejection"

C3_Witness ==
    /\ C3_Case
    /\ lastAnalysis[1].pattern = "unhandled-rejection"
    /\ Len(lastAnalysis[1].likelyCauses) = 1

\* C4: the similar-count of enhance is the number of entries recorded by
\* earlier enhance calls with the same name and similarity > 0.7 (0 for the
\* first failure ever enhanced).
C4_SimilarCountIsPrior ==
    lastAnalysis # <<>> =>
        lastAnalysis[1].similarErrorsCount = Len(findSimilarErrors(priorHistory, lastCtx[1]))

WordSet(str) == Range(SplitWs(ToLowerCase(str)))

WordSetSimilarity(str1, str2) ==
    Ratio(Cardinality(WordSet(str1) \cap WordSet(str2)),
          Max(Cardinality(WordSet(str1)), Cardinality(WordSet(str2))))

\* C5: the similarity of two messages is |intersection of their word sets| /
\* max(sizes of the word sets), duplicates removed.
C5_WordSetSimilarity ==
    simResult # <<>> => RatioEq(simResult[1], WordSetSimilarity(simArgs[1], simArgs[2]))

\* C6: similarity is symmetric, calculateSimilarity(a, b) = calculateSimilarity(b, a).
C6_Symmetric ==
    simResult # <<>> => RatioEq(simResult[1], calculateSimilarity(simArgs[2], simArgs[1]))

\* C7: the confidence returned by enhance is never lower than the confidence
\* of the analysis it was given.
C7_ConfidenceNeverLower ==
    lastAnalysis # <<>> => lastAnalysis[1].confidence >= lastBase[1].confidence

\* enhance ran on a full-confidence analysis with a knowledge-base match and
\* an earlier similar failure: the sum of the boosts is cut off at 1.0
C7_Witness ==
    /\ lastAnalysis # <<>>
    /\ lastBase[1].confidence = One
    /\ lastAnalysis[1].similarErrorsCount >= 2
    /\ findKnowledgeMatch(lastCtx[1]) # <<>>
    /\ lastAnalysis[1].confidence = One

\* C8: the breadcrumb trail of an assembled bundle stays what it was when the
\* bundle was built, whatever is recorded afterwards.
C8_BundleTrailIsCopy ==
    lastBundle # <<>> => BundleTrail(lastBundle[1]) = lastBundle[1].built

\* C9: with a rate in (0,1), inside the callback of a sampled-out run() no
\* context is current, also when that run() was called inside a live context.
C9_SampledOutHasNoContext ==
    \A f \in Flows :
        (/\ Enabled
         /\ Config.sampling > 0
         /\ Config.sampling < 100
         /\ stack[f] # <<>>
         /\ stack[f][Len(stack[f])].created = NoContext)
            => getCurrentContext(f) = NoContext

ValidSampling(opt) == opt = <<>> \/ (opt[1] >= 0 /\ opt[1] <= 100)
ValidDepth(opt) == opt = <<>> \/ opt[1] >= 0

\* C10: a sampling rate outside [0,1] or a negative depth is rejected at
\* construction: no engine runs on such a configuration.
C10_InvalidConfigRejected ==
    Enabled =>
        /\ ValidSampling(requested.sampling)
        /\ ValidDepth(requested.asyncDepth)
        /\ Config.sampling >= 0
        /\ Config.sampling <= 100
        /\ Config.asyncDepth >= 0

\* the invocation of one hook of one registered plugin
HookCall(name, hook) == [plugin |-> name, hook |-> hook]

\* C11: whenever an error is processed, the onError hook of every registered
\* plugin has been invoked, and its onAnalysis hook once the analysis is made.
C11_HooksInvoked ==
    [][errorHistory' # errorHistory =>
         \A name \in DOMAIN plugins :
             /\ HookCall(name, "onError") \in hookCalls'
             /\ HookCall(name, "onAnalysis") \in hookCalls']_vars

\* the innermost unit of work of the flow was sampled out: its run() called
\* the callback without creating a context
InSampledOutUnit(f) ==
    /\ f \in Flows
    /\ stack[f] # <<>>
    /\ stack[f][Len(stack[f])].created = NoContext

\* C12: with a sampling rate r in [0, 1), an error reported from a unit of
\* work that was sampled out is not analysed.
C12_SampledOutNotAnalysed ==
    [][(/\ errorHistory' # errorHistory
        /\ Enabled
        /\ Config.sampling >= 0
        /\ Config.sampling < 100)
           => ~InSampledOutUnit(caller')]_vars

AllRunsExited == \A f \in Flows : stack[f] = <<>>

\* C13: a context whose run() has returned or thrown is no longer in the
\* store of active contexts, so the store is empty once every run() has exited.
C13_ExitedRunsLeaveStore ==
    /\ \A c \in activeContexts :
           \E f \in Flows : \E j \in 1..Len(stack[f]) : stack[f][j].created = c
    /\ AllRunsExited => activeContexts = {}

C13_Witness ==
    /\ AllRunsExited
    /\ contextCounter = MaxContexts
    /\ activeContexts = {}

\* the context that was active in the flow when its j-th run() in progress
\* was called
ActiveAtCall(f, j) == StoreOf(SubSeq(stack[f], 1, j - 1))

\* the innermost run() of the flow returns or throws in this step
Exits(f) ==
    /\ stack[f] # <<>>
    /\ stack'[f] = SubSeq(stack[f], 1, Len(stack[f]) - 1)

\* C14: the context of a nested run() has as parent the context active at the
\* call; while the child is the current context the parent's breadcrumb
\* sequence does not change; when the nested run() exits, the current context
\* of the flow is the parent again.
C14_NestedRun ==
    /\ [](\A f \in Flows : \A j \in 1..Len(stack[f]) :
             stack[f][j].created # NoContext =>
                 contexts[stack[f][j].created].parent = ActiveAtCall(f, j))
    /\ [][\A f \in Flows :
             LET child == StoreOf(stack[f])
             IN  (child # NoContext /\ stack[f][Len(stack[f])].created = child) =>
                     LET parent == contexts[child].parent
                     IN  /\ parent # NoContext =>
                                contexts'[parent].breadcrumbs = contexts[parent].breadcrumbs
                         /\ Exits(f) =>
                                /\ StoreOf(stack'[f]) = parent
                                /\ contexts' = contexts]_vars

C14_Witness ==
    \E child \in DOMAIN contexts : \E f \in Flows :
        /\ contexts[child].parent # NoContext
        /\ child \notin activeContexts
        /\ contexts[child].breadcrumbs # <<>>
        /\ StoreOf(stack[f]) = contexts[child].parent
        /\ contexts[contexts[child].parent].breadcrumbs # <<>>

\* the context was created by a run() in progress of the flow
OwnedBy(c, f) == \E j \in 1..Len(stack[f]) : stack[f][j].created = c

\* C15: under any interleaving of flows that each run in their own context, a
\* breadcrumb is appended to the active context of the flow that recorded it
\* and to no context of another flow, and each sequence only grows at its end.
C15_OwnContextOnly ==
    [][\A c \in DOMAIN contexts :
          contexts'[c].breadcrumbs # contexts[c].breadcrumbs =>
              /\ caller' \in Flows
              /\ c = StoreOf(stack[caller'])
              /\ \A g \in Flows \ {caller'} : ~OwnedBy(c, g)
              /\ Len(contexts'[c].breadcrumbs) = Len(contexts[c].breadcrumbs) + 1
              /\ SubSeq(contexts'[c].breadcrumbs, 1, Len(contexts[c].breadcrumbs))
                     = contexts[c].breadcrumbs]_vars

C15_Witness ==
    \E f \in Flows : \E g \in Flows \ {f} :
        /\ StoreOf(stack[f]) # NoContext
        /\ StoreOf(stack[g]) # NoContext
        /\ contexts[StoreOf(stack[f])].breadcrumbs # <<>>
        /\ contexts[StoreOf(stack[g])].breadcrumbs # <<>>

\* C16: in every context the first breadcrumb has no parentId, and the
\* parentId of every later breadcrumb is the id of the breadcrumb appended
\* immediately before it in the same context.
C16_ParentIsPrevious ==
    \A c \in DOMAIN contexts :
        LET crumbs == contexts[c].breadcrumbs
        IN  \A i \in 1..Len(crumbs) :
                crumbs[i].parentId =
                    IF i = 1 THEN <<>> ELSE <<crumbs[i - 1].id>>

C16_Witness ==
    \E c \in DOMAIN contexts :
        /\ Len(contexts[c].breadcrumbs) >= 2
        /\ contexts[c].breadcrumbs[2].parentId = <<contexts[c].breadcrumbs[1].id>>

\* C17: after n errors the history holds exactly the most recent
\* min(n, 100) of them in arrival order (the n-th error arrives at tick n).
C17_MostRecentHundred ==
    /\ Len(errorHistory) = Min(now, HistoryCapacity)
    /\ \A i \in 1..Len(errorHistory) :
           errorHistory[i].timestamp = now - Len(errorHistory) + i

C17_Witness ==
    /\ now > HistoryCapacity + 1
    /\ Len(errorHistory) = HistoryCapacity
    /\ errorHistory[1].timestamp = now - HistoryCapacity + 1
    /\ errorHistory[HistoryCapacity].timestamp = now

\* the rules of the library, by position, whose matcher accepts the bundle
Matched(ctx) == {i \in 1..Len(errorPatterns) : matcher(errorPatterns[i], ctx)}

\* C18: the cause list returned by analyze is never empty, and when no rule
\* matches it is exactly the one synthesized cause of confidence 0.3.
C18_CauseListNonEmpty ==
    lastAnalysis # <<>> =>
        /\ Len(lastAnalysis[1].likelyCauses) >= 1
        /\ Matched(lastCtx[1]) = {} =>
               lastAnalysis[1].likelyCauses =
                   <<[description |-> "Unknown error cause", confidence |-> 30]>>

C18_Witness ==
    /\ lastAnalysis # <<>>
    /\ Matched(lastCtx[1]) = {}
    /\ Len(lastAnalysis[1].likelyCauses) = 1
    /\ lastAnalysis[1].likelyCauses[1].confidence = 30

\* the fixes of all the rules that matched the bundle
MatchedFixes(ctx) == UNION {Range(errorPatterns[i].fixes) : i \in Matched(ctx)}

\* C19: the fix list returned by analyze has at most 5 entries, is sorted by
\* non-increasing confidence, and holds the highest-confidence fixes of the
\* matched rules: none is repeated or invented, as many as fit are kept, and
\* no dropped fix has a confidence greater than a kept one.
C19_TopFiveFixes ==
    lastAnalysis # <<>> =>
        LET kept == lastAnalysis[1].suggestedFixes
            all == MatchedFixes(lastCtx[1])
        IN  /\ Len(kept) <= 5
            /\ \A i \in 1..Len(kept) : \A j \in i..Len(kept) :
                   kept[i].confidence >= kept[j].confidence
            /\ Range(kept) \subseteq all
            /\ Cardinality(Range(kept)) = Len(kept)
            /\ Len(kept) = Min(5, Cardinality(all))
            /\ \A dropped \in all \ Range(kept) : \A fix \in Range(kept) :
                   dropped.confidence <= fix.confidence

C19_Witness ==
    /\ lastAnalysis # <<>>
    /\ Cardinality(MatchedFixes(lastCtx[1])) > 5
    /\ Len(lastAnalysis[1].suggestedFixes) = 5

\* rule i is reported before rule j: higher priority first, and among rules
\* of equal priority the one declared first
Before(i, j) ==
    \/ errorPatterns[i].priority > errorPatterns[j].priority
    \/ errorPatterns[i].priority = errorPatterns[j].priority /\ i < j

\* the matched rules in priority-then-declaration order
InReportOrder(ctx) ==
    LET matched == Matched(ctx)
    IN  [k \in 1..Cardinality(matched) |->
            errorPatterns[CHOOSE i \in matched :
                Cardinality({j \in matched : Before(j, i)}) = k - 1]]

\* C20: the pattern returned by analyze is the name of the matched rule of
\* highest priority, the first declared among equals; the causes are listed
\* in the same priority-then-declaration order; with no matched rule the
\* pattern is absent.
C20_PatternIsFirstRanked ==
    lastAnalysis # <<>> =>
        LET ordered == InReportOrder(lastCtx[1])
        IN  IF Matched(lastCtx[1]) = {}
            THEN lastAnalysis[1].pattern = Undefined
            ELSE /\ lastAnalysis[1].pattern = ordered[1].name
                 /\ lastAnalysis[1].likelyCauses = FlattenCauses(ordered)

C20_Witness ==
    /\ lastAnalysis # <<>>
    /\ {1, 5} \subseteq Matched(lastCtx[1])
    /\ errorPatterns[1].priority = errorPatterns[5].priority
    /\ lastAnalysis[1].pattern = "null-undefined-access"
    /\ lastAnalysis[1].likelyCauses[3].description = "Required module is not installed"

\* some entry of the knowledge base matches the message
HasKbMatch(ctx) ==
    \E i \in 1..Len(knowledgeBase) : TestI(knowledgeBase[i].pattern, ctx.error.message)

\* the boost from history for a similar-count, in units of confidence
HistoryBoost(similarCount) ==
    IF similarCount >= 3 THEN 15 * ConfDen ELSE similarCount * 5 * ConfDen

\* C21: the confidence returned by enhance is min(1.0, base confidence +
\* min(0.05 x similarCount, 0.15) + 0.10 if a knowledge-base entry matched),
\* with similarCount the count reported in the same result; the boost from
\* history is at most 0.15 and exactly 0.15 from similarCount 3 on.
C21_EnhancedConfidence ==
    lastAnalysis # <<>> =>
        LET boost == HistoryBoost(lastAnalysis[1].similarErrorsCount)
            kbBoost == IF HasKbMatch(lastCtx[1]) THEN 10 * ConfDen ELSE 0
            sum == lastBase[1].confidence + boost + kbBoost
        IN  /\ lastAnalysis[1].confidence = IF sum > One THEN One ELSE sum
            /\ boost <= 15 * ConfDen

C21_Witness ==
    /\ lastAnalysis # <<>>
    /\ lastAnalysis[1].similarErrorsCount >= 4
    /\ HasKbMatch(lastCtx[1])
    /\ lastBase[1].confidence = 50 * ConfDen
    /\ lastAnalysis[1].confidence = 75 * ConfDen

\* the fields enhance sets
EnhancedFields == {"confidence", "aiExplanation", "preventionTips", "similarErrorsCount"}

\* C22: enhance returns the analysis it was given with its causes, fixes and
\* pattern unchanged, same elements in the same order; the only fields it
\* sets are the explanation, the tip list, the similar-count and the confidence.
C22_EnhanceKeepsAnalysis ==
    lastAnalysis # <<>> =>
        /\ lastAnalysis[1].likelyCauses = lastBase[1].likelyCauses
        /\ lastAnalysis[1].suggestedFixes = lastBase[1].suggestedFixes
        /\ lastAnalysis[1].pattern = lastBase[1].pattern
        /\ DOMAIN lastAnalysis[1] = DOMAIN lastBase[1] \cup EnhancedFields

C22_Witness ==
    /\ lastAnalysis # <<>>
    /\ Len(lastBase[1].likelyCauses) >= 2
    /\ Len(lastBase[1].suggestedFixes) >= 2
    /\ lastBase[1].pattern = "null-undefined-access"
    /\ HasKbMatch(lastCtx[1])
    /\ lastAnalysis[1].confidence > lastBase[1].confidence
    /\ lastAnalysis[1].likelyCauses = lastBase[1].likelyCauses

\* the entries of the history that have the name of the failure and a
\* similarity to its message strictly greater than 0.7 = 7/10
SimilarEntries(history, ctx) ==
    {i \in 1..Len(history) :
        /\ history[i].errorName = ctx.error.name
        /\ LET similarity == calculateSimilarity(history[i].errorMessage, ctx.error.message)
           IN  similarity.num * 10 > 7 * similarity.den}

\* C23: an entry of the history counts as similar only if its name is the
\* failure's name and its similarity to the failure's message is strictly
\* greater than 0.7; entries of another name, or of similarity exactly 0.7,
\* are not counted.
C23_SimilarOnlyAboveThreshold ==
    lastAnalysis # <<>> =>
        lastAnalysis[1].similarErrorsCount =
            Cardinality(SimilarEntries(errorHistory, lastCtx[1]))

\* the history holds an entry of the same name at similarity exactly 0.7 and
\* an entry of another name with the identical message; only the failure's
\* own entry is counted
C23_Witness ==
    /\ lastAnalysis # <<>>
    /\ lastCtx[1].error = [name |-> "Error", message |-> MsgTenWords]
    /\ \E i \in 1..Len(errorHistory) :
           /\ errorHistory[i].errorName = "Error"
           /\ RatioEq(calculateSimilarity(errorHistory[i].errorMessage, MsgTenWords),
                      Ratio(7, 10))
    /\ \E i \in 1..Len(errorHistory) :
           /\ errorHistory[i].errorName = "TypeError"
           /\ errorHistory[i].errorMessage = MsgTenWords
    /\ lastAnalysis[1].similarErrorsCount = 1

\* an earlier failure and a current one, both with the given name and message
EarlierFailure(name, message) ==
    [errorName |-> name, errorMessage |-> message, timestamp |-> 0, type |-> "custom"]
CurrentFailure(name, message) ==
    [error |-> [name |-> name, message |-> message], type |-> "custom",
     breadcrumbs |-> <<>>, timestamp |-> 0, contextId |-> NoContext]

\* C24: the similarity of a message to itself is 1.0, the empty message and
\* messages with repeated words included, so an earlier failure of the same
\* name and message counts as similar.
C24_SelfSimilarityIsOne ==
    (simResult # <<>> /\ simArgs[1] = simArgs[2]) =>
        /\ simResult[1].num = simResult[1].den
        /\ simResult[1].den > 0
        /\ findSimilarErrors(<<EarlierFailure("Error", simArgs[1])>>,
                             CurrentFailure("Error", simArgs[2]))
               = <<EarlierFailure("Error", simArgs[1])>>

C24_Witness ==
    /\ simResult # <<>>
    /\ simArgs[1] = <<"a", Blank, "a">>
    /\ simArgs[2] = <<"a", Blank, "a">>
    /\ simResult[1] = Ratio(2, 2)

\* C25: a failure with the message "Cannot read properties of undefined
\* (reading 'theme')" is classified 'null-undefined-access'; its first cause
\* is 'Attempting to access property on null or undefined object' (0.95) and
\* its first fix is 'Use optional chaining' (0.95), whatever the failure kind
\* and the breadcrumb trail.
C25_ReadingThemeScenario ==
    (lastAnalysis # <<>> /\ lastCtx[1].error.message = MsgReadingTheme) =>
        /\ lastAnalysis[1].pattern = "null-undefined-access"
        /\ lastAnalysis[1].likelyCauses[1] =
               [description |-> "Attempting to access property on null or undefined object",
                confidence |-> 95]
        /\ lastAnalysis[1].suggestedFixes[1].description = "Use optional chaining"
        /\ lastAnalysis[1].suggestedFixes[1].confidence = 95

\* the scenario with a second rule matched: an unhandled rejection with a
\* promise breadcrumb on the trail
C25_Witness ==
    /\ lastAnalysis # <<>>
    /\ lastCtx[1].error.message = MsgReadingTheme
    /\ lastCtx[1].type = "unhandledRejection"
    /\ lastCtx[1].breadcrumbs # <<>>
    /\ Cardinality(Matched(lastCtx[1])) = 2
    /\ lastAnalysis[1].pattern = "null-undefined-access"
    /\ lastAnalysis[1].suggestedFixes[1].description = "Use optional chaining"

\* C26: the confidence analyze computes before enhancement is the arithmetic
\* mean of the confidences of the causes it returns, 0.3 when no rule
\* matched, and lies in [0, 1].
C26_BaseConfidenceIsMean ==
    lastBase # <<>> =>
        LET causes == lastAnalysis[1].likelyCauses
        IN  /\ lastBase[1].confidence * Len(causes) = SumConfidence(causes) * ConfDen
            /\ Matched(lastCtx[1]) = {} => lastBase[1].confidence = 30 * ConfDen
            /\ lastBase[1].confidence >= 0
            /\ lastBase[1].confidence <= One

\* five causes of confidence 0.95, 0.8, 0.95, 0.85 and 0.9: the mean is 0.89
C26_Witness ==
    /\ lastBase # <<>>
    /\ Len(lastAnalysis[1].likelyCauses) = 5
    /\ SumConfidence(lastAnalysis[1].likelyCauses) = 445
    /\ lastBase[1].confidence = 89 * ConfDen

\* the flow that made the last call has no active context
CallerHasNoContext(flow) == flow \in Flows /\ StoreOf(stack[flow]) = NoContext

\* C30: with no active context, addBreadcrumb changes no state, getBreadcrumbs
\* is the empty trail, and an error bundle assembled then carries an empty
\* breadcrumb trail and the sentinel context id.
C30_NoContextIsNoOp ==
    [][CallerHasNoContext(caller') =>
          /\ (stack' = stack /\ instance' = instance /\ errorHistory' = errorHistory)
                 => (/\ contexts' = contexts
                     /\ bcCounter' = bcCounter
                     /\ activeContexts' = activeContexts
                     /\ lastBundle' = lastBundle)
          /\ errorHistory' # errorHistory
                 => (/\ lastBundle'[1].built = <<>>
                     /\ lastBundle'[1].crumbsOf = NoContext
                     /\ lastBundle'[1].contextId = NoContext
                     /\ lastCtx'[1].breadcrumbs = <<>>)]_vars

\* a bundle assembled by a flow without a context while another flow's
\* context holds breadcrumbs
C30_Witness ==
    /\ lastBundle # <<>>
    /\ CallerHasNoContext(caller)
    /\ lastBundle[1].built = <<>>
    /\ lastBundle[1].contextId = NoContext
    /\ \E c \in DOMAIN contexts : contexts[c].breadcrumbs # <<>>

IsContainer(value) == value.kind \in {"object", "array"}

\* the value, or something below it, is a container that is on the path
\* from the root to itself
RECURSIVE ReachesItselfAgain(_, _)
ReachesItselfAgain(value, ancestors) ==
    /\ IsContainer(value)
    /\ \/ value.id \in ancestors
       \/ \E i \in 1..Len(value.fields) :
              ReachesItselfAgain(value.fields[i].value, ancestors \cup {value.id})

\* the copy has the marker at every point where a container is reached again
RECURSIVE MarkedWhereReachedAgain(_, _, _)
MarkedWhereReachedAgain(value, copy, ancestors) ==
    IF ~ReachesItselfAgain(value, ancestors) THEN TRUE
    ELSE IF value.id \in ancestors THEN copy = CircularReference
    ELSE /\ copy.kind = value.kind
         /\ Len(copy.fields) = Len(value.fields)
         /\ \A i \in 1..Len(value.fields) :
                MarkedWhereReachedAgain(value.fields[i].value, copy.fields[i].value,
                                        ancestors \cup {value.id})

RECURSIVE MarkedWithinDepth(_, _, _, _)
MarkedWithinDepth(value, copy, ancestors, depth) ==
    IsContainer(copy) =>
        \A i \in 1..Len(copy.fields) :
            LET item == value.fields[i].value
            IN  IF /\ IsContainer(item)
                   /\ item.id \in ancestors \cup {value.id}
                   /\ depth + 1 <= CloneMaxDepth
                THEN copy.fields[i].value = CircularReference
                ELSE MarkedWithinDepth(item, copy.fields[i].value,
                                       ancestors \cup {value.id}, depth + 1)

\* the containers of a value, each with the number of its properties
RECURSIVE ContainersOf(_)
ContainersOf(value) ==
    IF ~IsContainer(value) THEN {}
    ELSE {<<value.id, Len(value.fields)>>}
             \cup UNION {ContainersOf(value.fields[i].value) : i \in 1..Len(value.fields)}

RECURSIVE PropertyCount(_)
PropertyCount(containers) ==
    IF containers = {} THEN 0
    ELSE LET c == CHOOSE c \in containers : TRUE
         IN  c[2] + PropertyCount(containers \ {c})

RingOfThree == [k \in 1..3 |-> GraphNode(3, "object", 1, NoProperty, TRUE, k)]

RECURSIVE CopiedToDepth(_, _, _)
CopiedToDepth(value, copy, depth) ==
    IF depth > 5 THEN copy = MaxDepthReached
    ELSE IF value.kind = "prim" THEN copy = value
    ELSE IF value.kind = "function" THEN copy = FunctionPlaceholder
    ELSE \/ copy = CircularReference
         \/ /\ copy.kind = value.kind
            /\ Len(copy.fields) = Len(value.fields)
            /\ \A i \in 1..Len(value.fields) :
                   /\ copy.fields[i].key = value.fields[i].key
                   /\ CopiedToDepth(value.fields[i].value, copy.fields[i].value, depth + 1)

\* the depth of the deepest container of a value, the root being at depth 0
\* (-1 when the value is no container)
RECURSIVE ContainerDepth(_)
ContainerDepth(value) ==
    IF ~IsContainer(value) THEN -1
    ELSE LET below == {ContainerDepth(value.fields[i].value) : i \in 1..Len(value.fields)}
         IN  1 + (IF below = {} THEN -1 ELSE CHOOSE d \in below : \A e \in below : e <= d)

ChainOfSix == [k \in 1..6 |-> GraphNode(6, "object", ANumber, NoProperty, TRUE, k)]

CaptureFails(name) ==
    \/ cloneValue(watchedVariables[name], 0, {}, <<>>).thrown
    \/ mask(cloneValue(watchedVariables[name], 0, {}, <<>>).value).thrown

\* C29: captureSnapshot never raises; a watched name whose value cannot be
\* copied or masked has the marker '<error capturing value>' in the snapshot,
\* and every other watched name is there with the masked copy of its value.
C29_CaptureNeverRaises ==
    (lastCall # <<>> /\ lastCall[1].op = "captureSnapshot") =>
        /\ ~lastCall[1].raised
        /\ DOMAIN lastCall[1].captured = DOMAIN watchedVariables
        /\ \A name \in DOMAIN watchedVariables :
               lastCall[1].captured[name] =
                   IF CaptureFails(name) THEN Prim("<error capturing value>")
                   ELSE mask(cloneValue(watchedVariables[name], 0, {}, <<>>).value).value

\* a snapshot of two names: the value of one cannot be copied, the other is
\* there with its copy
C29_Witness ==
    /\ lastCall # <<>>
    /\ lastCall[1].op = "captureSnapshot"
    /\ DOMAIN watchedVariables = WatchNames
    /\ CaptureFails("user")
    /\ lastCall[1].captured["user"] = Prim("<error capturing value>")
    /\ ~CaptureFails("settings")
    /\ IsContainer(lastCall[1].captured["settings"])
    /\ Len(lastCall[1].captured["settings"].fields) = 2
    /\ lastCall[1].captured["settings"].fields[1].value = Prim("***MASKED***")

\* C31: run() calls the callback exactly once, sampled out or not, and ends
\* as the callback ended: it returns the value the callback returned, or
\* raises the exception the callback raised.
C31_CallbackExactlyOnce ==
    lastRun # <<>> =>
        /\ lastRun[1].outcome.calls = 1
        /\ lastRun[1].outcome.ends = lastRun[1].callback.ends
        /\ lastRun[1].outcome.value = lastRun[1].callback.value

\* a sampled-out run() whose callback raised, inside a run() in progress
C31_Witness ==
    /\ lastRun # <<>>
    /\ lastRun[1].sampledOut
    /\ lastRun[1].callback = [ends |-> "throw", value |-> 2]
    /\ lastRun[1].outcome.ends = "throw"
    /\ \E f \in Flows : stack[f] # <<>>

\* a run() that created a context and whose callback returned
C31_WitnessSampledIn ==
    /\ lastRun # <<>>
    /\ ~lastRun[1].sampledOut
    /\ lastRun[1].callback.ends = "return"
    /\ contextCounter > 0

EnabledInstances == {i \in DOMAIN instances : instances[i].isEnabled}

\* the last call was DevInsight.enable and it was not a repetition that
\* left every variable as it was
EnableReturned == lastApi' # lastApi /\ lastApi'[1].op = "enable"

\* C32: after any sequence of enable and disable at most one instance is
\* enabled, and it is DevInsight.instance; enable while enabled returns the
\* existing instance and leaves it as it is; disable while not enabled
\* changes nothing; enable after disable (or at the start) makes a new
\* enabled instance whose configuration is the one given, normalised.
C32_GuardedSingleton ==
    /\ [](/\ Cardinality(EnabledInstances) <= 1
          /\ Enabled =>
                (/\ EnabledInstances = {Len(instances)}
                 /\ instance[1].isEnabled
                 /\ instance[1].config = instances[Len(instances)].config)
          /\ ~Enabled => EnabledInstances = {})
    /\ [][/\ (EnableReturned /\ Enabled) =>
               /\ instance' = instance
               /\ instances' = instances
               /\ lastApi'[1].returned = Len(instances)
          /\ (EnableReturned /\ ~Enabled) =>
               /\ Len(instances') = Len(instances) + 1
               /\ lastApi'[1].returned = Len(instances')
               /\ instance' # <<>>
               /\ instance'[1].config = normalizeConfig(lastApi'[1].config[1])
               /\ instances'[Len(instances')].config =
                      normalizeConfig(lastApi'[1].config[1])
               /\ instances'[Len(instances')].handled = 0
               /\ errorHistory' = <<>>
          /\ (lastApi' # lastApi /\ lastApi'[1].op = "disable" /\ ~Enabled) =>
               /\ UNCHANGED <<instance, instances, listeners, exited>>
               /\ UNCHANGED trackerVars
               /\ UNCHANGED aiVars
               /\ UNCHANGED pluginVars
               /\ UNCHANGED snapVars]_vars

\* a second instance is enabled after the first was disabled, and a further
\* enable with another configuration returned it as it was
C32_Witness ==
    /\ Len(instances) = 2
    /\ ~instances[1].isEnabled
    /\ instances[2].isEnabled
    /\ instances[2].config # instances[1].config
    /\ lastApi # <<>>
    /\ lastApi[1].op = "enable"
    /\ lastApi[1].returned = 2
    /\ normalizeConfig(lastApi[1].config[1]) # instances[2].config

\* the places of the handlers of DevInsight among the listeners of an event
DevInsightHandlers(event) ==
    {k \in DOMAIN listeners[event] : listeners[event][k].of # 0}

\* C33: the handlers of a disabled instance are no longer registered: at
\* most one handler of DevInsight is registered per event and it belongs to
\* an enabled instance, and no failure is handled by a disabled instance.
C33_HandlersRemoved ==
    /\ [](\A event \in Events :
            /\ Cardinality(DevInsightHandlers(event)) <= 1
            /\ \A k \in DevInsightHandlers(event) :
                   instances[listeners[event][k].of].isEnabled)
    /\ [][\A i \in DOMAIN instances :
              instances'[i].handled > instances[i].handled => instances[i].isEnabled]_vars

\* C34: the middleware calls next(err) exactly once and does not raise, for
\* every err and whether or not DevInsight is enabled.
C34_MiddlewareForwardsOnce ==
    (lastApi # <<>> /\ lastApi[1].op = "middleware") =>
        /\ ~lastApi[1].raised
        /\ lastApi[1].nextCalls = 1

\* the only instance is enabled and found a listener of the host for the
\* event of the last signal when it was installed
SignalWithPreexistingListener ==
    /\ lastApi # <<>>
    /\ lastApi[1].op \in Events
    /\ Len(instances) = 1
    /\ instances[1].isEnabled
    /\ instances[1].originalHandlers[lastApi[1].op] = <<HostListener>>

\* C36: when a listener of the host was registered before install, a
\* failure signal calls that listener exactly once and is analysed exactly
\* once.
C36_PreexistingListenerOnce ==
    SignalWithPreexistingListener =>
        /\ lastApi[1].hostCalls = 1
        /\ lastApi[1].handledBy[1] = 1

\* C35: a context that getCurrentContext reports is in activeContexts, in
\* the flows inside run() and in the continuations that carry a store; and
\* addBreadcrumb extends only contexts that are in activeContexts.
C35_CurrentContextIsLive ==
    /\ [](\A f \in Flows :
            getCurrentContext(f) # NoContext => getCurrentContext(f) \in activeContexts)
    /\ [][\A c \in DOMAIN contexts :
              contexts'[c].breadcrumbs # contexts[c].breadcrumbs => c \in activeContexts]_vars

\* the copy has the marker only where the value is a container on the
\* current path, and a container that is not on the current path, at a depth
\* of at most 5, is copied as a container with its elements
RECURSIVE MarkerOnlyAtCycle(_, _, _, _)
MarkerOnlyAtCycle(value, copy, ancestors, depth) ==
    IF IsContainer(value) /\ value.id \notin ancestors /\ depth <= CloneMaxDepth
    THEN /\ copy.kind = value.kind
         /\ Len(copy.fields) = Len(value.fields)
         /\ \A i \in 1..Len(value.fields) :
                MarkerOnlyAtCycle(value.fields[i].value, copy.fields[i].value,
                                  ancestors \cup {value.id}, depth + 1)
    ELSE copy = CircularReference => (IsContainer(value) /\ value.id \in ancestors)

\* C37: cloneValue puts '<circular reference>' only where the object reached
\* is an ancestor of itself on the current path; an object referenced from
\* two places without a cycle is copied in full at both places.
C37_MarkerOnlyAtTrueCycle ==
    (cloneResult # <<>> /\ ~cloneResult[1].thrown) =>
        MarkerOnlyAtCycle(cloneArg[1], cloneResult[1].value, {}, 0)

\* causes, fixes and pattern of an analysis
Classification(analysis) ==
    [likelyCauses |-> analysis.likelyCauses,
     suggestedFixes |-> analysis.suggestedFixes,
     pattern |-> analysis.pattern]

\* what the rule library alone gives for a bundle
ClassifiedFromBundle(ctx) ==
    [likelyCauses |-> identifyCauses(matchPatterns(ctx)),
     suggestedFixes |-> generateFixes(matchPatterns(ctx)),
     pattern |-> IF matchPatterns(ctx) # <<>> THEN matchPatterns(ctx)[1].name
                 ELSE Undefined]

\* C38: causes, fixes (in order) and pattern of an analysis are a function
\* of the bundle analysed, whatever failures were analysed before; and a
\* bundle analysed again at once, after a longer history, is classified the
\* same way.
C38_ClassificationIgnoresHistory ==
    /\ [](lastAnalysis # <<>> =>
              Classification(lastAnalysis[1]) = ClassifiedFromBundle(lastCtx[1]))
    /\ [][(lastAnalysis # <<>> /\ lastCtx' = lastCtx /\ errorHistory' # errorHistory) =>
              Classification(lastAnalysis'[1]) = Classification(lastAnalysis[1])]_vars

\* a bundle analysed after a similar failure of another kind, which was
\* classified differently; the similar failure was counted
C38_Witness ==
    /\ lastAnalysis # <<>>
    /\ Len(priorHistory) = 1
    /\ priorHistory[1].type = "unhandledRejection"
    /\ priorHistory[1].errorName = "TypeError"
    /\ priorHistory[1].errorMessage = MsgCannotRead
    /\ lastCtx[1].type = "custom"
    /\ lastCtx[1].error = [name |-> "TypeError", message |-> MsgCannotRead]
    /\ lastAnalysis[1].similarErrorsCount >= 1
    /\ lastAnalysis[1].pattern = "null-undefined-access"
    /\ Len(lastAnalysis[1].likelyCauses) = Len(errorPatterns[1].causes)

=============================================================================
